---- MODULE Spec2Model ----
(***************************************************************************)
(* Model of the remote tool connection layer of ai-chat-orchestrator:      *)
(* MCPConnectionManager (per-center connection state, handshake, tool     *)
(* discovery, tool invocation, health loop, disconnect), MCPToolCache      *)
(* (TTL cache of a center's tool list), MCPFallbackHandler, MCPAdapter     *)
(* and the part of ConversationOrchestrator.handleChatPrompt that routes   *)
(* tool calls and builds the reply's data records.                         *)
(*                                                                         *)
(* JavaScript runs one handler at a time: the code between two awaits of   *)
(* network I/O is one atomic action.  Every fetch() is a request in        *)
(* flight (variable requests); its completion is a separate action whose   *)
(* outcome is chosen by the environment.                                   *)
(***************************************************************************)
EXTENDS Integers, Sequences, FiniteSets, TLC

\* ---------------------------------------------------------------- bounds
MaxObjs == 2          \* connection objects connectToCenter may create
MaxCalls == 3         \* calls the callers make to the manager in a run
MaxNow == 6           \* last clock reading (minutes)
MaxTurns == 2         \* chat turns in a run
MaxFcs == 2           \* function calls the inference service proposes in a turn
MaxRand == 1          \* values of the random suffix of a generated call id
MaxChats == 1         \* chat documents created in a run
MaxMsgs == 2          \* message documents added in a run

\* ------------------------------------------------------------- constants
TTLMinutes == 5         \* MCPToolCache constructor default (minutes)
AdditionalMinutes == 5  \* extendCacheTTL default (minutes)

Centers == {"bogota", "cucuta"}
Procs == {"p1", "p2"}
ObjIds == 1..MaxObjs
NoConn == 0
NoTimer == 0
Times == 0..MaxNow
Rand == 1..MaxRand
ChatIds == 1..MaxChats
MsgIds == 1..MaxMsgs
\* The centers of CENTERS_CONFIG.
ConfiguredCenters == {"bogota", "medellin", "cucuta"}
NoHandle == 0

VARIABLES
  connections,         \* MCPConnectionManager.connections: center -> object
  heap,                \* the MCPConnection objects created so far
  nextObj,             \* next object to allocate
  connectionTimeouts,  \* MCPConnectionManager.connectionTimeouts
  timers,              \* setInterval handles not cleared (by creating object)
  hpc, hloc,           \* the health callback of each interval timer
  cache,               \* MCPToolCache.cache: center -> entry
  now,                 \* Date.now(), in minutes
  requests,            \* fetch() calls in flight
  pc, loc,             \* callers of the manager: position and locals
  res,                 \* outcome of each caller's last finished call
  calls,               \* calls made to the manager so far
  chats,               \* Firestore collection chats: the chat documents
  messages,            \* the subcollections chats/{id}/messages
  nextMsg,             \* message documents added so far
  firestoreConnections, \* CenterRouter.firestoreConnections: center -> handle
  firestores,          \* the Firestore handles constructed so far
  initialized,         \* MultiTenantManager.initialized
  swept,               \* the cache's sweep of the current minute has run
  isInitialized,       \* chatController's isInitialized
  chatDocs             \* the chat documents the listing is made of

\* The state of the connection manager and its cache.
mcpVars == <<connections, heap, nextObj, connectionTimeouts, timers, hpc,
             hloc, cache, now, requests>>

\* The state of the store and of the center router.
storeVars ==
  <<chats, messages, nextMsg, firestoreConnections, firestores, initialized,
    swept, isInitialized, chatDocs>>

vars == <<connections, heap, nextObj, connectionTimeouts, timers, hpc, hloc,
          cache, now, requests, pc, loc, res, calls, chats, messages,
          nextMsg, firestoreConnections, firestores, initialized, swept,
          isInitialized, chatDocs>>

\* ------------------------------------------------------------ data model
\* interfaces.ts MCPConnection; a slot of the heap not yet allocated is Free.
\* serverUrl is a function of centerId (getMCPServerUrl), and lastPing is
\* written (lines 31, 42, 132) but read nowhere: neither is stored.
Free == [centerId |-> "", isConnected |-> FALSE, serverStatus |-> "free"]

NoEntry == [present |-> FALSE, tools |-> <<>>, expiry |-> 0]

\* interfaces.ts MCPToolResult (error and data are "none" when absent).
ToolResult(call, ok, err, data) ==
  [toolName |-> call.toolName, callId |-> call.callId, success |-> ok,
   error |-> err, data |-> data]

\* A call id: a prefix, a clock reading and a random suffix; an id the
\* inference service supplied has prefix "fc" and no clock reading.
Id(prefix, t, r) == [prefix |-> prefix, time |-> t, rand |-> r]
NoId == Id("", 0, 0)

\* The parts of the final prompt that come from the two interpreters
\* (handleChatPrompt lines 143-147).
NoPrompt == [toolData |-> [kind |-> "none", results |-> <<>>],
             intentionText |-> ""]

NoCall == [toolName |-> "", callId |-> NoId, center_id |-> "", topic |-> ""]
NoResult == ToolResult(NoCall, FALSE, "none", "none")

\* JSON values as call parameters hold them: a primitive has a type t and
\* a text a; an array or an object has the set kv of its own enumerable
\* keys with their values (Object.keys of an array are "0", "1", ...).
Num(a) == [t |-> "number", a |-> a, kv |-> {}]
Str(a) == [t |-> "string", a |-> a, kv |-> {}]
Null == [t |-> "null", a |-> "", kv |-> {}]
Arr(kv) == [t |-> "array", a |-> "", kv |-> kv]
Obj(kv) == [t |-> "object", a |-> "", kv |-> kv]
Undefined == [t |-> "undefined", a |-> "", kv |-> {}]

\* interfaces.ts MCPToolResult (lines 22-31) as the adapter receives it.
MCPToolResult(toolName, success, data, mcpData, dataType, error) ==
  [toolName |-> toolName, success |-> success, data |-> data,
   mcpData |-> mcpData, dataType |-> dataType, error |-> error]

\* interfaces.ts ToolCall: a record of the chat's toolCalls array.
ToolCallRecord(toolName, callParams, timestamp, success) ==
  [toolName |-> toolName, callParams |-> callParams,
   timestamp |-> timestamp, success |-> success]
NoRecord == ToolCallRecord("", Null, 0, FALSE)

\* The question of a ToolCallsCache.execute (ToolCallsCacheParams).
NoQuery == [toolName |-> "", callParams |-> Null]

\* The signals of a request that name a center: the header x-center-id,
\* request.user.centerId, whether request.ip is set, and the query
\* parameter center ("" is a signal that is absent).
Request(header, user, ip, query) ==
  [header |-> header, user |-> user, ip |-> ip, query |-> query]
NoRequest == Request("", "", FALSE, "")

\* What a finished call gave its caller: kind is "return" or "raise"; conn is
\* the connection returned (or the one whose handshake failed); handshake
\* and fetch tell how the call's GET /health and GET /tools ended; seq is
\* the ordinal of the call among the calls made to the manager; call,
\* answer and result are the tool call of an executeToolCall, what the
\* endpoint answered and the MCPToolResult returned; invocations,
\* toolResults and data are, for a chat turn, the MCPToolCalls it issued,
\* the MCPToolResults it got for them and the data of its reply; executors
\* tells for each invocation who executed it, failed which awaited step of
\* the turn failed, text what the reply's text is, synthesisCalls how many
\* final inference calls the turn made, prompt what they were given, and
\* toolFailed and intentionFailed whether the turn's interpreters failed;
\* status is the status registered for the center when the fallback
\* handler was called; chat is the chat a store call was about, query and
\* ledger the question of a ToolCallsCache.execute and the toolCalls it
\* read, found and record its answer; request is the request handled,
\* handle the Firestore handle it was given and health the answer of a
\* health check: for each center whether it is healthy, with whether its
\* storage answered the check and whether its tool endpoint was reachable;
\* userId is the user a deleteUserChat was called for and owner the userId
\* of the chat document when it was called ("" if there was no document);
\* adapter is the file of the MCPAdapter a conversion was called on,
\* mcpResults its argument and genAIResults what it returned.
NoRes == [op |-> "none", seq |-> 0, center |-> "", kind |-> "none",
          conn |-> NoConn, handshake |-> "none", tools |-> <<>>,
          fromCache |-> FALSE, fetch |-> "none", answer |-> "none",
          call |-> NoCall, result |-> NoResult, invocations |-> <<>>,
          toolResults |-> <<>>, data |-> <<>>, executors |-> <<>>,
          failed |-> "none", text |-> "none", synthesisCalls |-> 0,
          prompt |-> NoPrompt, toolFailed |-> FALSE,
          intentionFailed |-> FALSE, status |-> "none",
          chat |-> 0, query |-> NoQuery, ledger |-> <<>>, found |-> FALSE,
          record |-> NoRecord, request |-> NoRequest, handle |-> NoHandle,
          health |-> {}, userId |-> "", owner |-> "", adapter |-> "",
          mcpResults |-> <<>>, genAIResults |-> <<>>,
          orchestrator |-> "", save |-> "none", load |-> "none",
          msg |-> 0, history |-> <<>>, snapshot |-> {}, ran |-> FALSE,
          page |-> <<>>, seen |-> <<>>, cursor |-> 0]

NoLoc == [center |-> "", seq |-> 0, conn |-> NoConn, call |-> NoCall,
          functionCalls |-> <<>>, idx |-> 0, invocations |-> <<>>,
          toolResults |-> <<>>, results |-> <<>>, executors |-> <<>>,
          toolFailed |-> FALSE, intentionFailed |-> FALSE,
          request |-> NoRequest, todo |-> {}, handles |-> {},
          health |-> {}, chat |-> 0, userId |-> "", owner |-> "",
          snapshot |-> {}, orchestrator |-> "", save |-> "none",
          load |-> "none", msg |-> 0, history |-> <<>>]

NoHLoc == [conn |-> NoConn, newc |-> NoConn]

\* A chat document (interfaces.ts ChatData with the userId createChat
\* stores); created tells whether its id has been given out, exists
\* whether the document is in the collection.
NoChat == [created |-> FALSE, exists |-> FALSE, userId |-> "",
           toolCalls |-> <<>>]

\* a fetch() in flight: who awaits it (a caller, or the health callback of
\* interval k), the path and the center.
Req(who, k, path, center) ==
  [who |-> who, timer |-> k, path |-> path, center |-> center]

\* ------------------------------------------------- MCPConnectionManager
\* A connectToCenter that never finds the registered connection.
ExistingConnectionNever(h, c) == FALSE

\* connectToCenter lines 21-22: a registered connection that is connected
\* (h is the heap as the handler has left it so far).
ExistingConnection(h, c) ==
  connections[c] # NoConn /\ h[connections[c]].isConnected

\* connectToCenter lines 28-34: the new connection object.
NewConnection(c) ==
  [centerId |-> c, isConnected |-> FALSE, serverStatus |-> "disconnected"]

\* A startHealthCheck that does not clear the interval it replaces.
StartHealthCheckNoClear(c, o) ==
  /\ timers' = timers \cup {o}
  /\ connectionTimeouts' = [connectionTimeouts EXCEPT ![c] = o]

\* startHealthCheck: clear the registered interval, install a new one.  The
\* new interval is named by the connection object o whose registration
\* starts it (each registration starts exactly one).
StartHealthCheck(c, o) ==
  /\ timers' = (timers \ {connectionTimeouts[c]}) \cup {o}
  /\ connectionTimeouts' = [connectionTimeouts EXCEPT ![c] = o]

\* A success branch that keeps a connected connection that is already
\* registered.
ConnectSucceededFirstWins(c, o) ==
  /\ heap' = [heap EXCEPT ![o] = [@ EXCEPT !.isConnected = TRUE,
                                           !.serverStatus = "connected"]]
  /\ IF connections[c] # NoConn /\ heap[connections[c]].isConnected
       THEN UNCHANGED <<connections, connectionTimeouts, timers>>
       ELSE /\ connections' = [connections EXCEPT ![c] = o]
            /\ StartHealthCheck(c, o)

\* connectToCenter lines 39-48: the handshake answered OK.
ConnectSucceeded(c, o) ==
  /\ heap' = [heap EXCEPT ![o] = [@ EXCEPT !.isConnected = TRUE,
                                           !.serverStatus = "connected"]]
  /\ connections' = [connections EXCEPT ![c] = o]
  /\ StartHealthCheck(c, o)

\* connectToCenter lines 49-52: the handshake failed; the error is thrown.
ConnectFailed(c, o) ==
  /\ heap' = [heap EXCEPT ![o] = [@ EXCEPT !.serverStatus = "error"]]
  /\ UNCHANGED <<connections, connectionTimeouts, timers>>

\* connectToCenter lines 28-37: allocate the object, send GET /health.
\* h and rq are the heap and the requests as the handler has left them.
BeginHandshake(who, k, c, h, rq) ==
  /\ nextObj <= MaxObjs
  /\ heap' = [h EXCEPT ![nextObj] = NewConnection(c)]
  /\ nextObj' = nextObj + 1
  /\ requests' = rq \cup {Req(who, k, "/health", c)}

\* A health check that marks the status but leaves isConnected alone.
HealthCheckedKeepsConnected(h, o, healthy) ==
  [h EXCEPT ![o] = IF healthy
                     THEN [@ EXCEPT !.serverStatus = "connected"]
                     ELSE [@ EXCEPT !.serverStatus = "error"]]

\* checkMCPHealth lines 131-137: the probed connection object after the ping.
HealthChecked(h, o, healthy) ==
  [h EXCEPT ![o] = IF healthy
                     THEN [@ EXCEPT !.serverStatus = "connected"]
                     ELSE [@ EXCEPT !.serverStatus = "error",
                                    !.isConnected = FALSE]]

\* disconnect lines 160-164: clear and forget the registered interval.
ClearHealthCheck(c) ==
  IF connectionTimeouts[c] # NoTimer
    THEN /\ timers' = timers \ {connectionTimeouts[c]}
         /\ connectionTimeouts' = [connectionTimeouts EXCEPT ![c] = NoTimer]
    ELSE UNCHANGED <<timers, connectionTimeouts>>

\* ----------------------------------------------------------- MCPToolCache
\* MCPToolCache.clearCache
ClearCache(ch, c) == [ch EXCEPT ![c] = NoEntry]

\* MCPToolCache.cacheTools: expiry = Date.now() + defaultTTL.
CacheTools(ch, c, tools) ==
  [ch EXCEPT ![c] = [present |-> TRUE, tools |-> tools,
                     expiry |-> now + TTLMinutes]]

\* An expiry test that is one minute late.
ExpiredLate(e) == now > e.expiry + 1

\* MCPToolCache.getCachedTools line 110: the entry has expired.
Expired(e) == now > e.expiry

\* A lookup that never hits.
CacheHitNever(ch, c) == FALSE

\* MCPToolCache.getCachedTools: a hit returns the entry's tools.
CacheHit(ch, c) == ch[c].present /\ ~Expired(ch[c])

\* MCPToolCache.getCachedTools: the cache it leaves (an expired entry found
\* by the lookup is deleted).
AfterGet(ch, c) ==
  IF ch[c].present /\ Expired(ch[c]) THEN ClearCache(ch, c) ELSE ch

\* A sweep that deletes nothing.
SweptNothing(ch) == ch

\* MCPToolCache.cleanup: the sweep deletes every expired entry.
Swept(ch) ==
  [c \in Centers |-> IF ch[c].present /\ Expired(ch[c]) THEN NoEntry ELSE ch[c]]

\* MCPToolCache.extendCacheTTL
Extended(ch, c, minutes) ==
  IF ch[c].present
    THEN [ch EXCEPT ![c] = [@ EXCEPT !.expiry = @ + minutes]]
    ELSE ch

\* ------------------------------------------------------ the MCP endpoint
\* What GET /tools can answer: a manifest (fetchToolsFromMCPServer lines
\* 237-248 normalise it; a body without a tools field gives no tools), or a
\* failure (not OK, transport error, timeout, undecodable body).
Manifests == {<<"get_rendimientos">>, <<>>}
ToolsAnswers ==
  [ok : {TRUE}, tools : Manifests] \cup [ok : {FALSE}, tools : {<<>>}]

\* fetchToolsFromMCPServer: the tool list it returns for an answer; every
\* failure returns the empty list (lines 232-235, 253-256).
FetchedTools(answer) == IF answer.ok THEN answer.tools ELSE <<>>

\* The tool calls callers make (interfaces.ts MCPToolCall; of the
\* parameters only center_id and topic, which the fallback reads, are
\* kept; "" is a parameter that is absent or empty).
ToolCalls ==
  {[toolName |-> "get_rendimientos", callId |-> Id("fc", 0, 1),
    center_id |-> "", topic |-> ""],
   [toolName |-> "contact_center", callId |-> Id("fc", 0, 2),
    center_id |-> "bogota", topic |-> ""]}

\* What the POST of executeMCPTool can end in: fetch throws (transport
\* error, timeout), a non-OK status, a body that is not JSON, a JSON body
\* that is null, an error object with or without a message, a result with
\* a text block holding JSON or plain text, a result without content.
FailureAnswers ==
  {"transport", "timeout", "http_error", "bad_body", "null_body",
   "error_object", "error_no_message"}
SuccessAnswers == {"content_json", "content_text", "plain_result"}
CallAnswers == FailureAnswers \cup SuccessAnswers

\* executeMCPTool lines 259-338: the MCPToolResult for each answer.
ExecuteMCPTool(call, answer) ==
  CASE answer = "transport" -> ToolResult(call, FALSE, "fetch failed", "none")
    [] answer = "timeout" ->
         ToolResult(call, FALSE, "The operation was aborted due to timeout",
                    "none")
    [] answer = "http_error" -> ToolResult(call, FALSE, "Error HTTP", "none")
    [] answer = "bad_body" ->
         ToolResult(call, FALSE, "Unexpected token in JSON", "none")
    [] answer = "null_body" ->
         ToolResult(call, FALSE, "Cannot read properties of null", "none")
    [] answer = "error_object" ->
         ToolResult(call, FALSE, "server message", "none")
    [] answer = "error_no_message" ->
         ToolResult(call, FALSE, "Error desconocido del servidor MCP", "none")
    [] answer = "content_json" -> ToolResult(call, TRUE, "none", "parsed")
    [] answer = "content_text" -> ToolResult(call, TRUE, "none", "content")
    [] answer = "plain_result" -> ToolResult(call, TRUE, "none", "result")

\* An executeToolCall whose connection check throws past its caller.
NoConnectionThrows(call) == [kind |-> "raise", result |-> NoResult]

\* executeToolCall lines 96-98 and 106-115: the throw for a missing
\* connection is caught and returned as a failed result.
NoConnectionOutcome(call) ==
  [kind |-> "return",
   result |-> ToolResult(call, FALSE, "No hay conexion MCP activa", "none")]

\* ------------------------------------------------- fallback and adapter
FallbackTools == {"general_info", "contact_center"}
Contacts == {"bogota", "medellin", "cucuta"}

\* Parameter values that are not strings (a number, written "<42>"): they
\* have no toLowerCase method.
NonStrings == {"<42>"}

\* String.prototype.toLowerCase on the values used here.
ToLowerCase(s) == IF s = "BOGOTA" THEN "bogota" ELSE s

\* The lower-case property names every object literal inherits from
\* Object.prototype with a truthy value: contacts[centerId] (line 229)
\* finds them too.
Inherited == {"constructor", "__proto__"}

\* executeFallbackGeneralInfo lines 200-220: it succeeds whatever the
\* topic, unless reading the topic throws (caught at lines 46-54).
ExecuteFallbackGeneralInfo(call) ==
  IF call.topic \in NonStrings
    THEN ToolResult(call, FALSE, "toLowerCase is not a function", "none")
    ELSE ToolResult(call, TRUE, "none", "general")

\* A contact fallback that answers for any center.
ExecuteFallbackContactCenterAnyCenter(call) ==
  IF call.center_id \in NonStrings
    THEN ToolResult(call, FALSE, "toLowerCase is not a function", "none")
    ELSE ToolResult(call, TRUE, "none", "contact")

\* executeFallbackContactCenter lines 225-246: the contact of the center
\* named in lower case, or a failure when there is none.
ExecuteFallbackContactCenter(call) ==
  IF call.center_id \in NonStrings
    THEN ToolResult(call, FALSE, "toLowerCase is not a function", "none")
    ELSE IF ToLowerCase(call.center_id) \in Contacts
      THEN ToolResult(call, TRUE, "none", "contact")
      ELSE IF ToLowerCase(call.center_id) \in Inherited
        THEN ToolResult(call, TRUE, "none", "inherited")
        ELSE ToolResult(call, FALSE, "Informacion de contacto no disponible",
                        "none")

\* MCPFallbackHandler.executeFallbackTool lines 29-56 with
\* executeSpecificFallback lines 177-195.
ExecuteFallbackTool(call) ==
  IF call.toolName \notin FallbackTools
    THEN ToolResult(call, FALSE, "No hay fallback disponible", "none")
    ELSE IF call.toolName = "general_info"
      THEN ExecuteFallbackGeneralInfo(call)
      ELSE ExecuteFallbackContactCenter(call)

\* The function calls the inference service proposes: with or without an
\* id of its own.
FunctionCalls ==
  {[name |-> "get_rendimientos", id |-> Id("fc", 0, 1), center_id |-> "",
    topic |-> ""],
   [name |-> "contact_center", id |-> NoId, center_id |-> "bogota",
    topic |-> ""]}

FunctionCallLists ==
  {s \in {<<>>} \cup {<<f>> : f \in FunctionCalls}
           \cup {<<f, g>> : f \in {x \in FunctionCalls : x.id # NoId},
                            g \in {x \in FunctionCalls : x.id = NoId}} :
     Len(s) <= MaxFcs}

\* MCPAdapter.generateCallId
GenerateCallId(r) == Id("mcp_call", now, r)

\* MCPAdapter.convertGenAIResultsToMCP, for one function call; r is the
\* random suffix drawn if an id is generated.
ConvertGenAIResultToMCP(fc, r) ==
  [toolName |-> fc.name,
   callId |-> IF fc.id # NoId THEN fc.id ELSE GenerateCallId(r),
   center_id |-> fc.center_id, topic |-> fc.topic]

\* A conversion that gives a failed result an empty response.
ConvertMCPResultToGenAIDropsError(result, fc) ==
  [name |-> result.toolName,
   response |-> [error |-> "none",
                 data |-> IF result.success THEN result.data ELSE "none"],
   params |-> fc.center_id]

\* MCPAdapter.convertMCPResultsToGenAI for one result, with the params
\* processMCPToolCall adds (lines 444-450).
ConvertMCPResultToGenAI(result, fc) ==
  [name |-> result.toolName,
   response |-> IF result.success
                  THEN [error |-> "none", data |-> result.data]
                  ELSE [error |-> result.error, data |-> "none"],
   params |-> fc.center_id]

\* The own enumerable properties an object spread (...v) copies: those of
\* an object or an array, the characters of a string by index (the strings
\* tried have one character), none of any other value.
Spread(v) ==
  IF v.t \in {"object", "array"} THEN v.kv
  ELSE IF v.t = "string" THEN {<<"0", v>>}
  ELSE {}

\* An object literal {...v, k1: v1, k2: v2}: the later keys replace those
\* spread.
Literal(v, k1, v1, k2, v2) ==
  Obj({e \in Spread(v) : e[1] \notin {k1, k2}} \cup {<<k1, v1>>, <<k2, v2>>})

\* MCPAdapter.convertMCPResultsToGenAI of src/src/core/mcp/MCPAdapter.ts
\* lines 53-58.
ConvertMCPResultsToGenAI(mcpResults) ==
  [i \in 1..Len(mcpResults) |->
     [name |-> mcpResults[i].toolName,
      response |-> IF mcpResults[i].success
                     THEN mcpResults[i].data
                     ELSE Obj({<<"error", mcpResults[i].error>>})]]

\* MCPAdapter.convertMCPResultsToGenAI of part_010 lines 147-156.
ConvertMCPResultsToGenAIWithMcpData(mcpResults) ==
  [i \in 1..Len(mcpResults) |->
     [name |-> mcpResults[i].toolName,
      response |-> IF mcpResults[i].success
                     THEN Literal(mcpResults[i].data,
                                  "mcpData", mcpResults[i].mcpData,
                                  "dataType", mcpResults[i].dataType)
                     ELSE Obj({<<"error", mcpResults[i].error>>})]]

\* The adapters of the repository, by file.
Adapters == {"MCPAdapter.ts", "part_010"}

\* convertMCPResultsToGenAI(mcpResults) called by p on the adapter of the
\* file given.
ConvertResults(p, adapter, mcpResults) ==
  /\ pc[p] = "idle"
  /\ calls < MaxCalls
  /\ calls' = calls + 1
  /\ res' = [res EXCEPT ![p] = [NoRes EXCEPT
               !.op = "convertMCPResultsToGenAI", !.seq = calls + 1,
               !.kind = "return", !.adapter = adapter,
               !.mcpResults = mcpResults,
               !.genAIResults =
                 IF adapter = "part_010"
                   THEN ConvertMCPResultsToGenAIWithMcpData(mcpResults)
                   ELSE ConvertMCPResultsToGenAI(mcpResults)]]
  /\ UNCHANGED <<pc, loc>>
  /\ UNCHANGED storeVars
  /\ UNCHANGED mcpVars

\* handleChatPrompt lines 183-207: the data records of the reply; rs gives
\* the random suffix drawn for each record.
McpData(results, rs) ==
  LET kept == SelectSeq(results,
                LAMBDA r : r.name # "buscar_informacion_operacional")
  IN [i \in 1..Len(kept) |->
        [toolName |-> kept[i].name,
         callId |-> Id("call", now, rs[i]),
         success |-> kept[i].response.error = "none",
         error |-> kept[i].response.error,
         data |-> "totals"]]

\* processMCPToolCall lines 413-419: the function call in turn is converted
\* to the MCPToolCall to execute.
Issue(t, call) == [t EXCEPT !.call = call, !.invocations = Append(@, call)]

\* processMCPToolCall lines 423-432: the call is given to the connection
\* manager or to the fallback handler.
Via(t, who) == [t EXCEPT !.executors = Append(@, who)]

\* handleChatPrompt lines 126-129 and executeToolInterpreter lines 533-540:
\* the tool data given to the final inference call.
ToolData(t) ==
  IF t.toolFailed THEN [kind |-> "Sin datos", results |-> <<>>]
  ELSE IF t.results = <<>>
    THEN [kind |-> "No se ejecutaron herramientas", results |-> <<>>]
    ELSE [kind |-> "results", results |-> t.results]

\* handleChatPrompt lines 130-133: the intention text given to the final
\* inference call.
IntentionText(t) ==
  IF t.intentionFailed THEN "Respuesta estandar" ELSE "intention"

\* A final prompt that drops what both interpreters gave when either of
\* them failed.
FinalPromptAllOrNothing(t) ==
  IF t.toolFailed \/ t.intentionFailed
    THEN [toolData |-> [kind |-> "Sin datos", results |-> <<>>],
          intentionText |-> "Respuesta estandar"]
    ELSE [toolData |-> ToolData(t), intentionText |-> IntentionText(t)]

\* handleChatPrompt lines 136-156: the final prompt.
FinalPrompt(t) ==
  [toolData |-> ToolData(t), intentionText |-> IntentionText(t)]

\* processMCPToolCall lines 434-450 and processFunctionCalls line 280: the
\* result of the call in progress is converted and pushed.
Push(t, result) ==
  [t EXCEPT !.toolResults = Append(@, result),
            !.results = Append(@, ConvertMCPResultToGenAI(
                                     result, t.functionCalls[t.idx])),
            !.call = NoCall,
            !.idx = @ + 1]

\* processFunctionCalls lines 256-285 from function call t.idx on, as far
\* as it runs without waiting for the endpoint: a call that needs the
\* endpoint is left in t.call, calls served by the fallback (or refused
\* by the manager) are pushed at once.
RECURSIVE ProcessFunctionCalls(_, _)
ProcessFunctionCalls(t, rs) ==
  IF t.idx > Len(t.functionCalls) THEN t
  ELSE LET call == ConvertGenAIResultToMCP(t.functionCalls[t.idx], rs[t.idx])
       IN IF t.conn # NoConn /\ heap[t.conn].isConnected
            THEN IF ExistingConnection(heap, t.center)
                   THEN Via(Issue(t, call), "manager")
                   ELSE IF NoConnectionOutcome(call).kind = "return"
                     THEN ProcessFunctionCalls(
                            Push(Via(Issue(t, call), "manager"),
                                 NoConnectionOutcome(call).result), rs)
                     ELSE ProcessFunctionCalls(
                            [Via(Issue(t, call), "manager")
                               EXCEPT !.call = NoCall, !.idx = @ + 1], rs)
            ELSE ProcessFunctionCalls(
                   Push(Via(Issue(t, call), "fallback"),
                        ExecuteFallbackTool(call)), rs)

Init ==
  /\ connections = [c \in Centers |-> NoConn]
  /\ heap = [o \in ObjIds |-> Free]
  /\ nextObj = 1
  /\ connectionTimeouts = [c \in Centers |-> NoTimer]
  /\ timers = {}
  /\ hpc = [k \in ObjIds |-> "idle"]
  /\ hloc = [k \in ObjIds |-> NoHLoc]
  /\ cache = [c \in Centers |-> NoEntry]
  /\ now = 0
  /\ requests = {}
  /\ pc = [p \in Procs |-> "idle"]
  /\ loc = [p \in Procs |-> NoLoc]
  /\ res = [p \in Procs |-> NoRes]
  /\ calls = 0
  /\ chats = [i \in ChatIds |-> NoChat]
  /\ messages = [i \in ChatIds |-> {}]
  /\ nextMsg = 0
  /\ firestoreConnections = [c \in ConfiguredCenters |-> NoHandle]
  /\ firestores = <<>>
  /\ initialized = FALSE
  /\ swept = TRUE
  /\ isInitialized = FALSE
  /\ chatDocs = {}

\* connectToCenter(c) called by p, up to its first await (or its return).
Connect(p, c) ==
  /\ pc[p] = "idle"
  /\ calls < MaxCalls
  /\ calls' = calls + 1
  /\ IF ExistingConnection(heap, c)
       THEN /\ res' = [res EXCEPT ![p] = [NoRes EXCEPT !.op = "connect",
                         !.seq = calls + 1, !.center = c, !.kind = "return",
                         !.conn = connections[c]]]
            /\ UNCHANGED <<heap, nextObj, requests, pc, loc>>
       ELSE /\ BeginHandshake(p, NoTimer, c, heap, requests)
            /\ pc' = [pc EXCEPT ![p] = "connect_handshake"]
            /\ loc' = [loc EXCEPT ![p] = [NoLoc EXCEPT !.center = c,
                                    !.seq = calls + 1, !.conn = nextObj]]
            /\ res' = [res EXCEPT ![p] = NoRes]
  /\ UNCHANGED <<connections, connectionTimeouts, timers, hpc, hloc, cache, now>>
  /\ UNCHANGED storeVars

\* establishConnection answers: response.ok, or not OK / transport error /
\* timeout (all three return false).
ConnectDone(p, ok) ==
  /\ pc[p] = "connect_handshake"
  /\ LET c == loc[p].center
         o == loc[p].conn
     IN /\ requests' = requests \ {Req(p, NoTimer, "/health", c)}
        /\ IF ok
             THEN /\ ConnectSucceeded(c, o)
                  /\ res' = [res EXCEPT ![p] = [NoRes EXCEPT !.op = "connect",
                               !.seq = loc[p].seq, !.center = c,
                               !.kind = "return", !.conn = o,
                               !.handshake = "ok"]]
             ELSE /\ ConnectFailed(c, o)
                  /\ res' = [res EXCEPT ![p] = [NoRes EXCEPT !.op = "connect",
                               !.seq = loc[p].seq, !.center = c,
                               !.kind = "raise", !.conn = o,
                               !.handshake = "failed"]]
  /\ pc' = [pc EXCEPT ![p] = "idle"]
  /\ loc' = [loc EXCEPT ![p] = NoLoc]
  /\ UNCHANGED <<nextObj, hpc, hloc, cache, now, calls>>
  /\ UNCHANGED storeVars

\* disconnect(c) called by p: no await, one step.
Disconnect(p, c) ==
  /\ pc[p] = "idle"
  /\ calls < MaxCalls
  /\ calls' = calls + 1
  /\ IF connections[c] # NoConn
       THEN /\ heap' = [heap EXCEPT ![connections[c]] =
                          [@ EXCEPT !.isConnected = FALSE,
                                    !.serverStatus = "disconnected"]]
            /\ ClearHealthCheck(c)
            /\ cache' = ClearCache(cache, c)
            /\ connections' = [connections EXCEPT ![c] = NoConn]
       ELSE UNCHANGED <<heap, timers, connectionTimeouts, cache, connections>>
  /\ res' = [res EXCEPT ![p] = [NoRes EXCEPT !.op = "disconnect",
                                  !.seq = calls + 1, !.center = c,
                                  !.kind = "return"]]
  /\ UNCHANGED <<nextObj, hpc, hloc, now, requests, pc, loc>>
  /\ UNCHANGED storeVars

\* executeToolCall(c, call) called by p, up to its await (or its return
\* when no connected connection is registered).
Invoke(p, c, call) ==
  /\ pc[p] = "idle"
  /\ calls < MaxCalls
  /\ calls' = calls + 1
  /\ IF ExistingConnection(heap, c)
       THEN /\ requests' = requests \cup {Req(p, NoTimer, "/", c)}
            /\ pc' = [pc EXCEPT ![p] = "invoke_call"]
            /\ loc' = [loc EXCEPT ![p] = [NoLoc EXCEPT !.center = c,
                                    !.seq = calls + 1, !.call = call]]
            /\ res' = [res EXCEPT ![p] = NoRes]
       ELSE /\ res' = [res EXCEPT ![p] = [NoRes EXCEPT !.op = "invoke",
                         !.seq = calls + 1, !.center = c,
                         !.kind = NoConnectionOutcome(call).kind,
                         !.answer = "no_connection", !.call = call,
                         !.result = NoConnectionOutcome(call).result]]
            /\ UNCHANGED <<requests, pc, loc>>
  /\ UNCHANGED <<connections, heap, nextObj, connectionTimeouts, timers, hpc,
                 hloc, cache, now>>
  /\ UNCHANGED storeVars

\* The POST of executeMCPTool is answered (or fails).
InvokeDone(p, answer) ==
  /\ pc[p] = "invoke_call"
  /\ requests' = requests \ {Req(p, NoTimer, "/", loc[p].center)}
  /\ res' = [res EXCEPT ![p] = [NoRes EXCEPT !.op = "invoke",
               !.seq = loc[p].seq, !.center = loc[p].center,
               !.kind = "return", !.answer = answer, !.call = loc[p].call,
               !.result = ExecuteMCPTool(loc[p].call, answer)]]
  /\ pc' = [pc EXCEPT ![p] = "idle"]
  /\ loc' = [loc EXCEPT ![p] = NoLoc]
  /\ UNCHANGED <<connections, heap, nextObj, connectionTimeouts, timers, hpc,
                 hloc, cache, now, calls>>
  /\ UNCHANGED storeVars

\* The calls made to the fallback handler directly: each tool of its
\* catalog with parameters that are absent, known, unknown, in upper case,
\* an inherited property name or not a string; and a tool it does not
\* have.
FallbackCalls ==
  {[toolName |-> "general_info", callId |-> Id("fc", 0, 1),
    center_id |-> "", topic |-> t] : t \in {"", "entrega", "<42>"}}
  \cup
  {[toolName |-> "contact_center", callId |-> Id("fc", 0, 2),
    center_id |-> c, topic |-> ""] :
      c \in {"", "bogota", "BOGOTA", "cali", "constructor", "<42>"}}
  \cup
  {[toolName |-> "get_rendimientos", callId |-> Id("fc", 0, 1),
    center_id |-> "", topic |-> ""]}

\* The status registered for center c.
RegisteredStatus(c) ==
  IF connections[c] = NoConn THEN "none"
  ELSE heap[connections[c]].serverStatus

\* executeFallbackTool(call) called by p for center c (part_013 lines
\* 29-56): it awaits nothing outside the handler and reads nothing of the
\* connection manager.
Fallback(p, c, call) ==
  /\ pc[p] = "idle"
  /\ calls < MaxCalls
  /\ calls' = calls + 1
  /\ res' = [res EXCEPT ![p] = [NoRes EXCEPT !.op = "fallback",
               !.seq = calls + 1, !.center = c, !.kind = "return",
               !.status = RegisteredStatus(c),
               !.call = call, !.result = ExecuteFallbackTool(call)]]
  /\ UNCHANGED <<connections, heap, nextObj, connectionTimeouts, timers, hpc,
                 hloc, cache, now, requests, pc, loc>>
  /\ UNCHANGED storeVars

\* ------------------------------------------------------ ToolCallsCache
\* typeof
Typeof(v) == IF v.t \in {"array", "object", "null"} THEN "object" ELSE v.t

\* Object.keys and property access
Keys(v) == {e[1] : e \in v.kv}
Get(v, k) == (CHOOSE e \in v.kv : e[1] = k)[2]

\* ToolCallsCache.deepEqual lines 110-130. The values compared are never
\* the same object (one was read from the store), so === holds only of
\* equal primitives and of null with null.
RECURSIVE DeepEqual(_, _)
DeepEqual(obj1, obj2) ==
  IF Typeof(obj1) # "object" /\ obj1 = obj2 THEN TRUE
  ELSE IF obj1.t = "null" /\ obj2.t = "null" THEN TRUE
  ELSE IF obj1.t = "null" \/ obj2.t = "null" THEN FALSE
  ELSE IF Typeof(obj1) # Typeof(obj2) THEN FALSE
  ELSE IF Typeof(obj1) # "object" THEN FALSE
  ELSE /\ Cardinality(Keys(obj1)) = Cardinality(Keys(obj2))
       /\ \A key \in Keys(obj1) :
            /\ key \in Keys(obj2)
            /\ DeepEqual(Get(obj1, key), Get(obj2, key))

\* The parameter values tried: a number, a string, empty and one-element
\* arrays and objects.
ParamValues ==
  {Num("5"), Str("5"), Arr({}), Obj({}), Arr({<<"0", Num("5")>>}),
   Obj({<<"0", Num("5")>>})}

\* The call parameters tried (the args of a function call).
CallParams == {Obj({})} \cup {Obj({<<"filters", v>>}) : v \in ParamValues}

LedgerTools == {"get_rendimientos", "contact_center"}

\* Array.prototype.find (lines 46-50): the index of the first record of
\* the tool that succeeded with the same parameters, 0 when there is none.
FindPrevious(toolCalls, query) ==
  LET hits == {i \in 1..Len(toolCalls) :
                 /\ toolCalls[i].toolName = query.toolName
                 /\ toolCalls[i].success
                 /\ DeepEqual(toolCalls[i].callParams, query.callParams)}
  IN IF hits = {} THEN 0 ELSE CHOOSE i \in hits : \A j \in hits : i <= j

\* FieldValue.arrayUnion: the element is added unless the array has it.
ArrayUnion(arr, e) ==
  IF \E i \in 1..Len(arr) : arr[i] = e THEN arr ELSE Append(arr, e)

\* ChatManager.createChat (part_005 lines 53-70) called by p for user u:
\* a chat document with a new id.
CreateChat(p, u) ==
  /\ pc[p] = "idle"
  /\ calls < MaxCalls
  /\ calls' = calls + 1
  /\ \E i \in ChatIds :
       /\ ~chats[i].created
       /\ \A j \in ChatIds : j < i => chats[j].created
       /\ chats' = [chats EXCEPT ![i] = [NoChat EXCEPT !.created = TRUE,
                                          !.exists = TRUE, !.userId = u]]
       /\ res' = [res EXCEPT ![p] = [NoRes EXCEPT !.op = "createChat",
                    !.seq = calls + 1, !.kind = "return", !.chat = i]]
  /\ UNCHANGED <<messages, nextMsg, firestoreConnections, firestores,
                 initialized, swept, isInitialized, pc, loc,
                 chatDocs>>
  /\ UNCHANGED mcpVars

\* ToolCallsCache.saveToolCall (lines 83-105) called by p: the update adds
\* the record to the chat's toolCalls; it fails when the store fails or
\* the document does not exist, and the failure is caught and logged.
SaveToolCall(p, i, toolCall, ok) ==
  /\ pc[p] = "idle"
  /\ calls < MaxCalls
  /\ calls' = calls + 1
  /\ chats' = IF ok /\ chats[i].exists
                THEN [chats EXCEPT ![i].toolCalls = ArrayUnion(@, toolCall)]
                ELSE chats
  /\ res' = [res EXCEPT ![p] = [NoRes EXCEPT !.op = "saveToolCall",
               !.seq = calls + 1, !.kind = "return", !.chat = i,
               !.record = toolCall]]
  /\ UNCHANGED <<messages, nextMsg, firestoreConnections, firestores,
                 initialized, swept, isInitialized, pc, loc,
                 chatDocs>>
  /\ UNCHANGED mcpVars

\* ToolCallsCache.execute (lines 24-78) called by p: the chat document is
\* read and its toolCalls searched; a failed read and a missing document
\* give found false.
Execute(p, i, query, ok) ==
  /\ pc[p] = "idle"
  /\ calls < MaxCalls
  /\ calls' = calls + 1
  /\ LET toolCalls == IF ok /\ chats[i].exists THEN chats[i].toolCalls
                      ELSE <<>>
         hit == FindPrevious(toolCalls, query)
     IN res' = [res EXCEPT ![p] = [NoRes EXCEPT !.op = "execute",
                  !.seq = calls + 1, !.kind = "return", !.chat = i,
                  !.query = query, !.ledger = chats[i].toolCalls,
                  !.found = (hit # 0),
                  !.record = IF hit # 0 THEN toolCalls[hit] ELSE NoRecord]]
  /\ UNCHANGED <<pc, loc>>
  /\ UNCHANGED storeVars
  /\ UNCHANGED mcpVars

\* --------------------------------------- CenterRouter, MultiTenantManager
DEFAULT_CENTER == "bogota"

\* getActiveCenters: every configured center has status active.
ActiveCenters == ConfiguredCenters

\* The centers in the order of CENTERS_CONFIG, which is the order of
\* getActiveCenters.
CentersInOrder == <<"bogota", "medellin", "cucuta">>

\* The first center of todo in that order.
FirstCenter(todo) ==
  CentersInOrder[CHOOSE i \in 1..Len(CentersInOrder) :
                   /\ CentersInOrder[i] \in todo
                   /\ \A j \in 1..(i - 1) : CentersInOrder[j] \notin todo]

\* CenterRouter.isValidCenter lines 124-131: getCenterConfig finds an
\* entry, which CENTERS_CONFIG[centerId] also does for the property names
\* every object inherits (part_017 lines 85-91).
IsValidCenter(centerId) == centerId \in ConfiguredCenters \cup Inherited

\* An identification that takes the query parameter before the user.
IdentifyCenterQueryFirst(request) ==
  IF request.header # "" /\ IsValidCenter(request.header)
    THEN request.header
  ELSE IF request.query # "" /\ IsValidCenter(request.query)
    THEN request.query
  ELSE IF request.user # "" /\ IsValidCenter(request.user)
    THEN request.user
  ELSE DEFAULT_CENTER

\* CenterRouter.identifyCenter lines 13-49; identifyByGeolocation (lines
\* 133-137) returns null for every ip.
IdentifyCenter(request) ==
  IF request.header # "" /\ IsValidCenter(request.header)
    THEN request.header
  ELSE IF request.user # "" /\ IsValidCenter(request.user)
    THEN request.user
  ELSE IF request.query # "" /\ IsValidCenter(request.query)
    THEN request.query
  ELSE DEFAULT_CENTER

\* chatController.extractUserContext lines 29-36: the center id of the
\* user context is the header or else the query parameter, unchecked.
ExtractUserContext(request) ==
  IF request.header # "" THEN request.header ELSE request.query

\* MultiTenantManager.handleRequest line 52: the center the request is
\* routed to.
RequestCenter(request) ==
  IF ExtractUserContext(request) # "" THEN ExtractUserContext(request)
  ELSE IdentifyCenter(request)

\* CenterRouter.routeToCenter lines 62-67: getCenter throws for a center
\* without entry, and an entry that is not a center's (an inherited
\* property) has no status active.
Routable(centerId) == centerId \in ActiveCenters

\* A check that always finds a handle missing.
HasFirestoreConnectionNever(fc, key) == FALSE

\* getFirestoreConnection line 142
HasFirestoreConnection(fc, key) == fc[key] # NoHandle

\* CenterRouter.getFirestoreConnection lines 139-157 for center key: the
\* handle of the center, constructed and stored if there is none. It
\* awaits nothing, so it is one step.
GetFirestoreConnection(key) ==
  IF HasFirestoreConnection(firestoreConnections, key)
    THEN UNCHANGED <<firestoreConnections, firestores>>
    ELSE /\ firestores' = Append(firestores, key)
         /\ firestoreConnections' =
              [firestoreConnections EXCEPT ![key] = Len(firestores) + 1]

\* MultiTenantManager.initializeCenters (lines 16-34) called by p, up to
\* the await of each center's routeToCenter (its getCenter, line 62).
InitializeCenters(p) ==
  /\ pc[p] = "idle"
  /\ calls < MaxCalls
  /\ calls' = calls + 1
  /\ pc' = [pc EXCEPT ![p] = "init"]
  /\ loc' = [loc EXCEPT ![p] = [NoLoc EXCEPT !.seq = calls + 1,
                                               !.todo = ActiveCenters]]
  /\ res' = [res EXCEPT ![p] = NoRes]
  /\ UNCHANGED storeVars
  /\ UNCHANGED mcpVars

\* routeToCenter(c) of p's initializeCenters goes on after getCenter
\* (lines 65-91): the center's handle is obtained, and kept in handles as
\* the pair of the center and the handle.
InitializeRoute(p, c) ==
  /\ pc[p] = "init"
  /\ c \in loc[p].todo
  /\ GetFirestoreConnection(c)
  /\ loc' = [loc EXCEPT ![p] = [@ EXCEPT !.todo = @ \ {c},
               !.handles = @ \cup {<<c, firestoreConnections'[c]>>}]]
  /\ UNCHANGED <<chats, messages, nextMsg, initialized, swept, isInitialized, pc, res, calls,
                 chatDocs>>
  /\ UNCHANGED mcpVars

\* Every routeToCenter of p's initializeCenters is settled (lines 31-32).
InitializeDone(p) ==
  /\ pc[p] = "init"
  /\ loc[p].todo = {}
  /\ initialized' = TRUE
  /\ pc' = [pc EXCEPT ![p] = "idle"]
  /\ loc' = [loc EXCEPT ![p] = NoLoc]
  /\ res' = [res EXCEPT ![p] = [NoRes EXCEPT !.op = "initializeCenters",
               !.seq = loc[p].seq, !.kind = "return"]]
  /\ UNCHANGED <<chats, messages, nextMsg, firestoreConnections, firestores,
                 swept, isInitialized, calls, chatDocs>>
  /\ UNCHANGED mcpVars

\* CenterRouter.identifyCenter(request) called by p.
Identify(p, request) ==
  /\ pc[p] = "idle"
  /\ calls < MaxCalls
  /\ calls' = calls + 1
  /\ res' = [res EXCEPT ![p] = [NoRes EXCEPT !.op = "identifyCenter",
               !.seq = calls + 1, !.kind = "return", !.request = request,
               !.center = IdentifyCenter(request)]]
  /\ UNCHANGED <<pc, loc>>
  /\ UNCHANGED storeVars
  /\ UNCHANGED mcpVars

\* MultiTenantManager.handleRequest(request) called by p with the user
\* context of the request (lines 46-55), up to the await of getCenter in
\* routeToCenter: it throws when the manager is not initialized, and
\* routeToCenter throws for a center it cannot route to (lines 62-67).
HandleRequest(p, request) ==
  /\ pc[p] = "idle"
  /\ calls < MaxCalls
  /\ calls' = calls + 1
  /\ IF initialized /\ Routable(RequestCenter(request))
       THEN /\ pc' = [pc EXCEPT ![p] = "route"]
            /\ loc' = [loc EXCEPT ![p] = [NoLoc EXCEPT !.seq = calls + 1,
                         !.center = RequestCenter(request),
                         !.request = request]]
            /\ res' = [res EXCEPT ![p] = NoRes]
       ELSE /\ res' = [res EXCEPT ![p] = [NoRes EXCEPT
                         !.op = "handleRequest", !.seq = calls + 1,
                         !.kind = "raise", !.request = request,
                         !.failed = IF initialized THEN "routeToCenter"
                                    ELSE "initialized",
                         !.center = IF initialized
                                      THEN RequestCenter(request) ELSE ""]]
            /\ UNCHANGED <<pc, loc>>
  /\ UNCHANGED storeVars
  /\ UNCHANGED mcpVars

\* p's handleRequest goes on after getCenter (routeToCenter lines 69-91,
\* handleRequest lines 57-69): the request gets the center and its handle.
HandleRequestRouted(p) ==
  /\ pc[p] = "route"
  /\ GetFirestoreConnection(loc[p].center)
  /\ res' = [res EXCEPT ![p] = [NoRes EXCEPT !.op = "handleRequest",
               !.seq = loc[p].seq, !.kind = "return",
               !.request = loc[p].request, !.center = loc[p].center,
               !.handle = firestoreConnections'[loc[p].center]]]
  /\ pc' = [pc EXCEPT ![p] = "idle"]
  /\ loc' = [loc EXCEPT ![p] = NoLoc]
  /\ UNCHANGED <<chats, messages, nextMsg, initialized, swept, isInitialized, calls,
                 chatDocs>>
  /\ UNCHANGED mcpVars

\* A status that does not depend on the storage.
GetCenterStatusIgnoringStorage(c, storage) == "active"

\* CenterRouter.getCenterStatus lines 96-119 for a configured center whose
\* health query on the storage succeeds or fails: the status of the center,
\* which is active, or offline after a failure. getMCPConnection (lines
\* 159-175) makes a record of the endpoint without contacting it and cannot
\* fail.
GetCenterStatus(c, storage) == IF storage THEN "active" ELSE "offline"

\* MultiTenantManager.healthCheck (lines 75-91) called by p, up to the
\* await of each center's getCenterStatus.
HealthCheck(p) ==
  /\ pc[p] = "idle"
  /\ calls < MaxCalls
  /\ calls' = calls + 1
  /\ pc' = [pc EXCEPT ![p] = "health"]
  /\ loc' = [loc EXCEPT ![p] = [NoLoc EXCEPT !.seq = calls + 1,
                                               !.todo = ActiveCenters]]
  /\ res' = [res EXCEPT ![p] = NoRes]
  /\ UNCHANGED storeVars
  /\ UNCHANGED mcpVars

\* getCenterStatus(c) of p's healthCheck: the handle of the center is
\* obtained, the health query on it succeeds or fails (storage), the tool
\* endpoint of the center is reachable or not (endpoint), and the center is
\* entered in the results (healthCheck line 83). The calls of one
\* healthCheck are started in the order of centers.map (line 79) and are
\* taken in that order.
HealthStatus(p, c, storage, endpoint) ==
  /\ pc[p] = "health"
  /\ loc[p].todo # {}
  /\ c = FirstCenter(loc[p].todo)
  /\ GetFirestoreConnection(c)
  /\ loc' = [loc EXCEPT ![p] = [@ EXCEPT !.todo = @ \ {c},
               !.health = @ \cup
                 {[center |-> c,
                   healthy |-> GetCenterStatus(c, storage) = "active",
                   storage |-> storage, endpoint |-> endpoint]}]]
  /\ UNCHANGED <<chats, messages, nextMsg, initialized, swept, isInitialized, pc, res, calls,
                 chatDocs>>
  /\ UNCHANGED mcpVars

\* Every getCenterStatus of p's healthCheck is settled (lines 89-90).
HealthCheckDone(p) ==
  /\ pc[p] = "health"
  /\ loc[p].todo = {}
  /\ pc' = [pc EXCEPT ![p] = "idle"]
  /\ loc' = [loc EXCEPT ![p] = NoLoc]
  /\ res' = [res EXCEPT ![p] = [NoRes EXCEPT !.op = "healthCheck",
               !.seq = loc[p].seq, !.kind = "return",
               !.health = loc[p].health]]
  /\ UNCHANGED storeVars
  /\ UNCHANGED <<calls>>
  /\ UNCHANGED mcpVars

\* ------------------------------------ ChatManager.deleteUserChat (part_005)
\* The limit of a batch of deleteCollection (deleteUserChat line 113).
BatchSize == 50

\* The users of chats, and the userId arguments of deleteUserChat: a user,
\* or "" for an argument that is empty or not given.
UserIds == {"u1", "u2"}
UserIdArgs == UserIds \cup {""}

\* query.get() of deleteQueryBatch (line 140) on the messages msgs of a
\* chat with limit(batchSize): the snapshots it can give.
Snapshots(msgs) ==
  IF Cardinality(msgs) <= BatchSize THEN {msgs}
  ELSE {snap \in SUBSET msgs : Cardinality(snap) = BatchSize}

\* MessageManager.saveUserMessage lines 48-61 (saveAssistantMessage
\* alike) called by p for chat i: a message document is added to the
\* messages of the chat, whether the chat document exists or not.
SaveUserMessage(p, i, ok) ==
  /\ pc[p] = "idle"
  /\ calls < MaxCalls
  /\ nextMsg < MaxMsgs
  /\ chats[i].created
  /\ calls' = calls + 1
  /\ IF ok
       THEN /\ nextMsg' = nextMsg + 1
            /\ messages' = [messages EXCEPT ![i] = @ \cup {nextMsg + 1}]
       ELSE UNCHANGED <<messages, nextMsg>>
  /\ res' = [res EXCEPT ![p] = [NoRes EXCEPT !.op = "saveUserMessage",
               !.seq = calls + 1, !.chat = i,
               !.kind = IF ok THEN "return" ELSE "raise"]]
  /\ UNCHANGED <<chats, firestoreConnections, firestores, initialized, swept, isInitialized, pc,
                 loc, chatDocs>>
  /\ UNCHANGED mcpVars

\* p's deleteUserChat ends with a rejection.
DeleteRaise(p) ==
  /\ res' = [res EXCEPT ![p] = [NoRes EXCEPT !.op = "deleteUserChat",
               !.seq = loc[p].seq, !.kind = "raise", !.chat = loc[p].chat,
               !.userId = loc[p].userId, !.owner = loc[p].owner]]
  /\ pc' = [pc EXCEPT ![p] = "idle"]
  /\ loc' = [loc EXCEPT ![p] = NoLoc]

\* ChatManager.deleteUserChat(firestore, i, userId) called by p, up to its
\* first await (lines 88-99 and 113): the read of the chat document if a
\* userId is given, else the first query of deleteQueryBatch.
DeleteUserChat(p, i, userId) ==
  /\ pc[p] = "idle"
  /\ calls < MaxCalls
  /\ chats[i].created
  /\ calls' = calls + 1
  /\ pc' = [pc EXCEPT ![p] = IF userId # "" THEN "delete_get"
                              ELSE "delete_query"]
  /\ loc' = [loc EXCEPT ![p] = [NoLoc EXCEPT !.seq = calls + 1,
               !.chat = i, !.userId = userId,
               !.owner = IF chats[i].exists THEN chats[i].userId ELSE ""]]
  /\ res' = [res EXCEPT ![p] = NoRes]
  /\ UNCHANGED storeVars
  /\ UNCHANGED mcpVars

\* chatDocRef.get() of p's deleteUserChat is answered (lines 99-110): the
\* call rejects when the read fails, the document does not exist or its
\* userId is not the one given; else the first query is made.
DeleteGet(p, ok) ==
  /\ pc[p] = "delete_get"
  /\ IF /\ ok
        /\ chats[loc[p].chat].exists
        /\ chats[loc[p].chat].userId = loc[p].userId
       THEN /\ pc' = [pc EXCEPT ![p] = "delete_query"]
            /\ UNCHANGED <<loc, res>>
       ELSE DeleteRaise(p)
  /\ UNCHANGED storeVars
  /\ UNCHANGED <<calls>>
  /\ UNCHANGED mcpVars

\* p's deleteQueryBatch fails: the first one rejects deleteCollection
\* (line 129), a later one, called from process.nextTick with no catch
\* (lines 154-156), leaves it pending for ever.
DeleteBatchFailed(p) ==
  IF loc[p].idx = 0
    THEN DeleteRaise(p)
    ELSE /\ pc' = [pc EXCEPT ![p] = "delete_pending"]
         /\ UNCHANGED <<loc, res>>

\* query.get() of p's deleteQueryBatch is answered (lines 140-146): with
\* no document deleteCollection resolves and the chat document's delete is
\* sent (line 115), else the batch deleting the documents is committed.
DeleteQuery(p, ok) ==
  /\ pc[p] = "delete_query"
  /\ IF ok
       THEN \E snap \in Snapshots(messages[loc[p].chat]) :
              /\ pc' = [pc EXCEPT ![p] = IF snap = {} THEN "delete_doc"
                                          ELSE "delete_commit"]
              /\ loc' = [loc EXCEPT ![p] = [@ EXCEPT !.snapshot = snap]]
              /\ UNCHANGED res
       ELSE DeleteBatchFailed(p)
  /\ UNCHANGED storeVars
  /\ UNCHANGED <<calls>>
  /\ UNCHANGED mcpVars

\* batch.commit() of p's deleteQueryBatch is answered (lines 148-156): the
\* documents of the snapshot are deleted and the next deleteQueryBatch
\* makes its query.
DeleteCommit(p, ok) ==
  /\ pc[p] = "delete_commit"
  /\ IF ok
       THEN /\ messages' = [messages EXCEPT
                              ![loc[p].chat] = @ \ loc[p].snapshot]
            /\ pc' = [pc EXCEPT ![p] = "delete_query"]
            /\ loc' = [loc EXCEPT ![p] = [@ EXCEPT !.idx = 1,
                                                    !.snapshot = {}]]
            /\ UNCHANGED res
       ELSE /\ DeleteBatchFailed(p)
            /\ UNCHANGED messages
  /\ UNCHANGED <<chats, nextMsg, firestoreConnections, firestores,
                 initialized, swept, isInitialized, calls,
                 chatDocs>>
  /\ UNCHANGED mcpVars

\* chatDocRef.delete() of p's deleteUserChat is answered (lines 115-116):
\* the chat document is deleted and the call returns, or it rejects.
DeleteDoc(p, ok) ==
  /\ pc[p] = "delete_doc"
  /\ IF ok
       THEN /\ chats' = [chats EXCEPT ![loc[p].chat] =
                          [NoChat EXCEPT !.created = TRUE]]
            /\ res' = [res EXCEPT ![p] = [NoRes EXCEPT
                         !.op = "deleteUserChat", !.seq = loc[p].seq,
                         !.kind = "return", !.chat = loc[p].chat,
                         !.userId = loc[p].userId, !.owner = loc[p].owner]]
            /\ pc' = [pc EXCEPT ![p] = "idle"]
            /\ loc' = [loc EXCEPT ![p] = NoLoc]
       ELSE /\ DeleteRaise(p)
            /\ UNCHANGED chats
  /\ UNCHANGED <<messages, nextMsg, firestoreConnections, firestores,
                 initialized, swept, isInitialized, calls,
                 chatDocs>>
  /\ UNCHANGED mcpVars

\* The store calls a turn awaits before it prepares its tools
\* (handleChatPrompt lines 37-53).
SetupSteps == {"createChat", "saveUserMessage", "getRecentHistory"}

\* handleChatPrompt(c) called by p when one of its first store calls fails
\* (lines 37-53, none of them inside a try): the failure leaves the turn.
\* Nothing of the manager is touched before, so the turn is one step.
TurnSetupFailed(p, c, step) ==
  /\ pc[p] = "idle"
  /\ calls < MaxCalls
  /\ calls < MaxTurns
  /\ calls' = calls + 1
  /\ res' = [res EXCEPT ![p] = [NoRes EXCEPT !.op = "turn",
               !.seq = calls + 1, !.center = c, !.kind = "raise",
               !.failed = step]]
  /\ UNCHANGED <<connections, heap, nextObj, connectionTimeouts, timers, hpc,
                 hloc, cache, now, requests, pc, loc>>
  /\ UNCHANGED storeVars

\* handleChatPrompt(c) called by p, its store calls answering, lines 67-79: connectToCenter up to its
\* await, or, when it returns the registered connection at once,
\* getAvailableTools up to its await or its return from the cache.
TurnStart(p, c) ==
  /\ pc[p] = "idle"
  /\ calls < MaxCalls
  /\ calls < MaxTurns
  /\ calls' = calls + 1
  /\ res' = [res EXCEPT ![p] = NoRes]
  /\ IF ExistingConnection(heap, c)
       THEN /\ cache' = AfterGet(cache, c)
            /\ loc' = [loc EXCEPT ![p] = [NoLoc EXCEPT !.center = c,
                         !.seq = calls + 1, !.conn = connections[c]]]
            /\ IF CacheHit(cache, c)
                 THEN /\ pc' = [pc EXCEPT ![p] = "turn_llm"]
                      /\ UNCHANGED requests
                 ELSE /\ pc' = [pc EXCEPT ![p] = "turn_tools"]
                      /\ requests' =
                           requests \cup {Req(p, NoTimer, "/tools", c)}
            /\ UNCHANGED <<heap, nextObj>>
       ELSE /\ BeginHandshake(p, NoTimer, c, heap, requests)
            /\ loc' = [loc EXCEPT ![p] = [NoLoc EXCEPT !.center = c,
                         !.seq = calls + 1, !.conn = nextObj]]
            /\ pc' = [pc EXCEPT ![p] = "turn_connect"]
            /\ UNCHANGED cache
  /\ UNCHANGED <<connections, connectionTimeouts, timers, hpc, hloc, now>>
  /\ UNCHANGED storeVars

\* The handshake of the turn's connectToCenter is answered: on failure the
\* turn goes on without a connection (lines 88-90), on success it lists
\* the tools (lines 74-78).
TurnConnectDone(p, ok) ==
  /\ pc[p] = "turn_connect"
  /\ LET c == loc[p].center
         o == loc[p].conn
         rq == requests \ {Req(p, NoTimer, "/health", c)}
     IN IF ok
          THEN /\ ConnectSucceeded(c, o)
               /\ cache' = AfterGet(cache, c)
               /\ IF CacheHit(cache, c)
                    THEN /\ pc' = [pc EXCEPT ![p] = "turn_llm"]
                         /\ requests' = rq
                    ELSE /\ pc' = [pc EXCEPT ![p] = "turn_tools"]
                         /\ requests' = rq \cup {Req(p, NoTimer, "/tools", c)}
               /\ UNCHANGED loc
          ELSE /\ ConnectFailed(c, o)
               /\ requests' = rq
               /\ loc' = [loc EXCEPT ![p] = [@ EXCEPT !.conn = NoConn]]
               /\ pc' = [pc EXCEPT ![p] = "turn_llm"]
               /\ UNCHANGED cache
  /\ UNCHANGED <<nextObj, hpc, hloc, now, calls, res>>
  /\ UNCHANGED storeVars

\* GET /tools of the turn's getAvailableTools is answered: the list is
\* cached and the interpreters are started (lines 100-120).
TurnToolsDone(p, answer) ==
  /\ pc[p] = "turn_tools"
  /\ requests' = requests \ {Req(p, NoTimer, "/tools", loc[p].center)}
  /\ cache' = CacheTools(cache, loc[p].center, FetchedTools(answer))
  /\ pc' = [pc EXCEPT ![p] = "turn_llm"]
  /\ UNCHANGED <<connections, heap, nextObj, connectionTimeouts, timers, hpc,
                 hloc, now, loc, res, calls>>
  /\ UNCHANGED storeVars

\* The turn goes on with the tool calls: to the endpoint for the call left
\* in t.call, or to the final answer when all are done.
TurnContinue(p, t, rq) ==
  /\ loc' = [loc EXCEPT ![p] = t]
  /\ IF t.idx > Len(t.functionCalls)
       THEN /\ pc' = [pc EXCEPT ![p] = "turn_final"]
            /\ requests' = rq
       ELSE /\ pc' = [pc EXCEPT ![p] = "turn_call"]
            /\ requests' = rq \cup {Req(p, NoTimer, "/", t.center)}

\* The inference calls of the two interpreters, started together (lines
\* 100-120), are answered: the tool interpreter's with function calls fcs,
\* which are processed (executeToolInterpreter lines 497-531), or with a
\* failure; the intention interpreter's with a text or with a failure
\* (lines 130-133). The intention interpreter touches nothing else, so its
\* answer is taken in the same step.
TurnAnalysis(p, fcs, toolOk, intentionOk, rs) ==
  /\ pc[p] = "turn_llm"
  /\ ~toolOk => fcs = <<>>
  /\ TurnContinue(p, ProcessFunctionCalls(
                       [loc[p] EXCEPT !.functionCalls = fcs, !.idx = 1,
                          !.toolFailed = ~toolOk,
                          !.intentionFailed = ~intentionOk], rs),
                  requests)
  /\ UNCHANGED <<connections, heap, nextObj, connectionTimeouts, timers, hpc,
                 hloc, cache, now, res, calls>>
  /\ UNCHANGED storeVars

\* The POST of the turn's executeToolCall is answered: its result is pushed
\* and the remaining function calls are processed.
TurnCallDone(p, answer, rs) ==
  /\ pc[p] = "turn_call"
  /\ TurnContinue(p, ProcessFunctionCalls(
                       Push(loc[p], ExecuteMCPTool(loc[p].call, answer)),
                       rs),
                  requests \ {Req(p, NoTimer, "/", loc[p].center)})
  /\ UNCHANGED <<connections, heap, nextObj, connectionTimeouts, timers, hpc,
                 hloc, cache, now, res, calls>>
  /\ UNCHANGED storeVars

\* How the end of a turn can go (lines 165-241): the final inference call
\* answers with a text, with an empty text, or fails; then the store fails
\* to save the assistant message or to update the chat's timestamp.
ReplyOutcomes ==
  {"ok", "empty", "synthesis", "saveAssistantMessage", "updateChatTimestamp"}

\* The final inference call and the store answer (lines 165-241): the reply
\* is returned with its data, or the failure is raised.
TurnReply(p, outcome, rs) ==
  /\ pc[p] = "turn_final"
  /\ res' = [res EXCEPT ![p] = [NoRes EXCEPT !.op = "turn",
               !.seq = loc[p].seq, !.center = loc[p].center,
               !.kind = IF outcome \in {"ok", "empty"} THEN "return"
                        ELSE "raise",
               !.failed = IF outcome \in {"ok", "empty"} THEN "none"
                          ELSE outcome,
               !.text = IF outcome = "ok" THEN "generated"
                        ELSE IF outcome = "empty"
                          THEN "No se pudo generar respuesta final."
                          ELSE "none",
               !.synthesisCalls = 1,
               !.prompt = FinalPrompt(loc[p]),
               !.toolFailed = loc[p].toolFailed,
               !.intentionFailed = loc[p].intentionFailed,
               !.conn = loc[p].conn,
               !.invocations = loc[p].invocations,
               !.toolResults = loc[p].toolResults,
               !.executors = loc[p].executors,
               !.data = IF outcome \in {"ok", "empty"}
                          THEN McpData(loc[p].results, rs) ELSE <<>>]]
  /\ pc' = [pc EXCEPT ![p] = "idle"]
  /\ loc' = [loc EXCEPT ![p] = NoLoc]
  /\ UNCHANGED <<connections, heap, nextObj, connectionTimeouts, timers, hpc,
                 hloc, cache, now, requests, calls>>
  /\ UNCHANGED storeVars

\* The interval k fires (startHealthCheck lines 367-368): checkMCPHealth up
\* to its ping; with no registered connection it returns false at once and
\* the callback goes on to reconnect.
HealthTick(k) ==
  /\ k \in timers
  /\ hpc[k] = "idle"
  /\ LET c == heap[k].centerId
     IN IF connections[c] # NoConn
          THEN /\ requests' = requests \cup {Req("health", k, "/health", c)}
               /\ hpc' = [hpc EXCEPT ![k] = "ping"]
               /\ hloc' = [hloc EXCEPT ![k] = [NoHLoc EXCEPT
                                                 !.conn = connections[c]]]
               /\ UNCHANGED <<heap, nextObj>>
          ELSE /\ BeginHandshake("health", k, c, heap, requests)
               /\ hpc' = [hpc EXCEPT ![k] = "handshake"]
               /\ hloc' = [hloc EXCEPT ![k] = [NoHLoc EXCEPT !.newc = nextObj]]
  /\ UNCHANGED <<connections, connectionTimeouts, timers, cache, now, pc, loc,
                 res, calls>>
  /\ UNCHANGED storeVars

\* The ping of interval k's callback is answered (checkMCPHealth lines
\* 129-139, startHealthCheck lines 369-373): the probed object is updated;
\* if unhealthy, connectToCenter runs up to its handshake.
HealthPingDone(k, healthy) ==
  /\ hpc[k] = "ping"
  /\ LET c == heap[k].centerId
         h == HealthChecked(heap, hloc[k].conn, healthy)
         rq == requests \ {Req("health", k, "/health", c)}
     IN IF healthy \/ ExistingConnection(h, c)
          THEN /\ heap' = h
               /\ requests' = rq
               /\ hpc' = [hpc EXCEPT ![k] = "idle"]
               /\ hloc' = [hloc EXCEPT ![k] = NoHLoc]
               /\ UNCHANGED nextObj
          ELSE /\ BeginHandshake("health", k, c, h, rq)
               /\ hpc' = [hpc EXCEPT ![k] = "handshake"]
               /\ hloc' = [hloc EXCEPT ![k] = [NoHLoc EXCEPT !.newc = nextObj]]
  /\ UNCHANGED <<connections, connectionTimeouts, timers, cache, now, pc, loc,
                 res, calls>>
  /\ UNCHANGED storeVars

\* The reconnect handshake of interval k's callback is answered
\* (startHealthCheck lines 372-376: a failure is caught and logged).
HealthReconnectDone(k, ok) ==
  /\ hpc[k] = "handshake"
  /\ LET c == heap[k].centerId
         o == hloc[k].newc
     IN /\ requests' = requests \ {Req("health", k, "/health", c)}
        /\ IF ok THEN ConnectSucceeded(c, o) ELSE ConnectFailed(c, o)
  /\ hpc' = [hpc EXCEPT ![k] = "idle"]
  /\ hloc' = [hloc EXCEPT ![k] = NoHLoc]
  /\ UNCHANGED <<nextObj, cache, now, pc, loc, res, calls>>
  /\ UNCHANGED storeVars

\* getAvailableTools(c) called by p, up to its first await (or its return
\* from the cache).
ListTools(p, c) ==
  /\ pc[p] = "idle"
  /\ calls < MaxCalls
  /\ calls' = calls + 1
  /\ cache' = AfterGet(cache, c)
  /\ IF CacheHit(cache, c)
       THEN /\ res' = [res EXCEPT ![p] = [NoRes EXCEPT !.op = "listTools",
                         !.seq = calls + 1, !.center = c, !.kind = "return",
                         !.tools = cache[c].tools, !.fromCache = TRUE]]
            /\ UNCHANGED <<heap, nextObj, requests, pc, loc>>
       ELSE /\ res' = [res EXCEPT ![p] = NoRes]
            /\ loc' = [loc EXCEPT ![p] =
                         [NoLoc EXCEPT !.center = c, !.seq = calls + 1,
                            !.conn = IF ExistingConnection(heap, c)
                                       THEN NoConn ELSE nextObj]]
            /\ IF ExistingConnection(heap, c)
                 THEN /\ requests' = requests \cup {Req(p, NoTimer, "/tools", c)}
                      /\ pc' = [pc EXCEPT ![p] = "listTools_fetch"]
                      /\ UNCHANGED <<heap, nextObj>>
                 ELSE /\ BeginHandshake(p, NoTimer, c, heap, requests)
                      /\ pc' = [pc EXCEPT ![p] = "listTools_handshake"]
  /\ UNCHANGED <<connections, connectionTimeouts, timers, hpc, hloc, now>>
  /\ UNCHANGED storeVars

\* The handshake of getAvailableTools' connectToCenter is answered (line
\* 75): on failure the error propagates, on success the manifest is asked.
ListToolsConnectDone(p, ok) ==
  /\ pc[p] = "listTools_handshake"
  /\ LET c == loc[p].center
         o == loc[p].conn
         rq == requests \ {Req(p, NoTimer, "/health", c)}
     IN IF ok
          THEN /\ ConnectSucceeded(c, o)
               /\ requests' = rq \cup {Req(p, NoTimer, "/tools", c)}
               /\ pc' = [pc EXCEPT ![p] = "listTools_fetch"]
               /\ UNCHANGED <<loc, res>>
          ELSE /\ ConnectFailed(c, o)
               /\ requests' = rq
               /\ pc' = [pc EXCEPT ![p] = "idle"]
               /\ loc' = [loc EXCEPT ![p] = NoLoc]
               /\ res' = [res EXCEPT ![p] = [NoRes EXCEPT !.op = "listTools",
                            !.seq = loc[p].seq, !.center = c,
                            !.kind = "raise", !.conn = o,
                            !.handshake = "failed"]]
  /\ UNCHANGED <<nextObj, hpc, hloc, cache, now, calls>>
  /\ UNCHANGED storeVars

\* GET /tools is answered (getAvailableTools lines 79-85): the list is
\* cached and returned.
ListToolsFetchDone(p, answer) ==
  /\ pc[p] = "listTools_fetch"
  /\ LET c == loc[p].center
     IN /\ requests' = requests \ {Req(p, NoTimer, "/tools", c)}
        /\ cache' = CacheTools(cache, c, FetchedTools(answer))
        /\ res' = [res EXCEPT ![p] = [NoRes EXCEPT !.op = "listTools",
                     !.seq = loc[p].seq, !.center = c, !.kind = "return",
                     !.conn = loc[p].conn,
                     !.handshake = IF loc[p].conn = NoConn THEN "none"
                                   ELSE "ok",
                     !.tools = FetchedTools(answer),
                     !.fetch = IF answer.ok THEN "ok" ELSE "failed"]]
  /\ pc' = [pc EXCEPT ![p] = "idle"]
  /\ loc' = [loc EXCEPT ![p] = NoLoc]
  /\ UNCHANGED <<connections, heap, nextObj, connectionTimeouts, timers, hpc,
                 hloc, now, calls>>
  /\ UNCHANGED storeVars

\* Time passes.
Tick ==
  /\ now < MaxNow
  /\ now' = now + 1
  /\ UNCHANGED <<connections, heap, nextObj, connectionTimeouts, timers, hpc,
                 hloc, cache, requests, pc, loc, res, calls>>
  /\ UNCHANGED storeVars

\* The cache's sweep interval fires (MCPToolCache constructor lines 79-81).
Cleanup ==
  /\ cache' = Swept(cache)
  /\ UNCHANGED <<connections, heap, nextObj, connectionTimeouts, timers, hpc,
                 hloc, now, requests, pc, loc, res, calls>>
  /\ UNCHANGED storeVars

\* The period of the cache's sweep interval, in minutes (60000 ms).
CleanupMinutes == 1

\* A minute passes after the sweep of the minute before has run: the
\* interval of the MCPToolCache constructor (lines 79-81) fires once in
\* every minute of the clock.
MinutePasses ==
  /\ swept
  /\ now < MaxNow
  /\ now' = now + CleanupMinutes
  /\ swept' = FALSE
  /\ UNCHANGED <<connections, heap, nextObj, connectionTimeouts, timers, hpc,
                 hloc, cache, requests, pc, loc, res, calls>>
  /\ UNCHANGED <<chats, messages, nextMsg, firestoreConnections, firestores,
                 initialized, isInitialized, chatDocs>>

\* The sweep of the current minute: the interval fires and runs cleanup.
SweepFires ==
  /\ ~swept
  /\ cache' = Swept(cache)
  /\ swept' = TRUE
  /\ UNCHANGED <<connections, heap, nextObj, connectionTimeouts, timers, hpc,
                 hloc, now, requests, pc, loc, res, calls>>
  /\ UNCHANGED <<chats, messages, nextMsg, firestoreConnections, firestores,
                 initialized, isInitialized, chatDocs>>

\* MCPToolCache.getCachedTools(c) called by p on the cache itself.
GetCachedTools(p, c) ==
  /\ pc[p] = "idle"
  /\ calls < MaxCalls
  /\ calls' = calls + 1
  /\ cache' = AfterGet(cache, c)
  /\ res' = [res EXCEPT ![p] =
               IF CacheHit(cache, c)
                 THEN [NoRes EXCEPT !.op = "getCachedTools",
                         !.seq = calls + 1, !.center = c, !.kind = "return",
                         !.tools = cache[c].tools, !.fromCache = TRUE]
                 ELSE [NoRes EXCEPT !.op = "getCachedTools",
                         !.seq = calls + 1, !.center = c, !.kind = "return"]]
  /\ UNCHANGED <<connections, heap, nextObj, connectionTimeouts, timers, hpc,
                 hloc, now, requests, pc, loc>>
  /\ UNCHANGED storeVars

\* MCPToolCache.extendCacheTTL(c) called by p with the default argument.
ExtendCacheTTL(p, c) ==
  /\ pc[p] = "idle"
  /\ calls < MaxCalls
  /\ calls' = calls + 1
  /\ cache' = Extended(cache, c, AdditionalMinutes)
  /\ res' = [res EXCEPT ![p] = [NoRes EXCEPT !.op = "extendCacheTTL",
                                  !.seq = calls + 1, !.center = c,
                                  !.kind = "return"]]
  /\ UNCHANGED <<connections, heap, nextObj, connectionTimeouts, timers, hpc,
                 hloc, now, requests, pc, loc>>
  /\ UNCHANGED storeVars

Next ==
  \/ \E p \in Procs, c \in Centers : Connect(p, c)
  \/ \E p \in Procs, ok \in BOOLEAN : ConnectDone(p, ok)
  \/ \E p \in Procs, c \in Centers : Disconnect(p, c)
  \/ \E p \in Procs, c \in Centers, call \in ToolCalls : Invoke(p, c, call)
  \/ \E p \in Procs, answer \in CallAnswers : InvokeDone(p, answer)
  \/ \E k \in ObjIds : HealthTick(k)
  \/ \E k \in ObjIds, healthy \in BOOLEAN : HealthPingDone(k, healthy)
  \/ \E k \in ObjIds, ok \in BOOLEAN : HealthReconnectDone(k, ok)

Spec == Init /\ [][Next]_vars

\* Scheduling: an interval that is set keeps firing (setInterval, line
\* 366), and every fetch is answered or times out (AbortSignal.timeout,
\* lines 203, 281, 349).
Fairness ==
  /\ \A k \in ObjIds :
       /\ WF_vars(HealthTick(k))
       /\ WF_vars(\E healthy \in BOOLEAN : HealthPingDone(k, healthy))
       /\ WF_vars(\E ok \in BOOLEAN : HealthReconnectDone(k, ok))
  /\ \A p \in Procs :
       /\ WF_vars(\E ok \in BOOLEAN : ConnectDone(p, ok))
       /\ WF_vars(\E answer \in CallAnswers : InvokeDone(p, answer))

SpecLive == Init /\ [][Next]_vars /\ Fairness

NextTools ==
  \/ \E p \in Procs, c \in Centers : ListTools(p, c)
  \/ \E p \in Procs, ok \in BOOLEAN : ListToolsConnectDone(p, ok)
  \/ \E p \in Procs, answer \in ToolsAnswers : ListToolsFetchDone(p, answer)
  \/ \E p \in Procs, c \in Centers : Disconnect(p, c)
  \/ \E k \in ObjIds : HealthTick(k)
  \/ \E k \in ObjIds, healthy \in BOOLEAN : HealthPingDone(k, healthy)
  \/ \E k \in ObjIds, ok \in BOOLEAN : HealthReconnectDone(k, ok)
  \/ Tick
  \/ Cleanup

SpecTools == Init /\ [][NextTools]_vars

\* The cache used through getAvailableTools and directly.
NextCache ==
  \/ \E p \in Procs, c \in Centers : ListTools(p, c)
  \/ \E p \in Procs, ok \in BOOLEAN : ListToolsConnectDone(p, ok)
  \/ \E p \in Procs, answer \in ToolsAnswers : ListToolsFetchDone(p, answer)
  \/ \E p \in Procs, c \in Centers : Disconnect(p, c)
  \/ \E p \in Procs, c \in Centers : GetCachedTools(p, c)
  \/ \E p \in Procs, c \in Centers : ExtendCacheTTL(p, c)
  \/ Tick
  \/ Cleanup

SpecCache == Init /\ [][NextCache]_vars

\* The payloads of the results converted: none, a text, objects and an
\* array.
Payloads ==
  {Undefined, Str("x"), Obj({}), Obj({<<"rows", Num("5")>>}),
   Arr({<<"0", Num("5")>>})}

\* The results converted: successes with each payload, with and without
\* mcpData and dataType, and failures with and without a message.
MCPToolResults ==
  {MCPToolResult("t", TRUE, d, m[1], m[2], Undefined) :
     d \in Payloads,
     m \in {<<Undefined, Undefined>>,
            <<Obj({<<"rows", Num("5")>>}), Str("r")>>}}
  \cup {MCPToolResult("t", FALSE, Undefined, Undefined, Undefined, e) :
          e \in {Str("x"), Undefined}}

\* The arguments of the conversions: no result, one result, and a success
\* followed by a failure.
MCPResultLists ==
  {<<>>} \cup {<<r>> : r \in MCPToolResults}
  \cup {<<MCPToolResult("t", TRUE, Str("x"), Undefined, Undefined, Undefined),
           MCPToolResult("t", FALSE, Undefined, Undefined, Undefined,
                         Str("x"))>>}

\* The conversions of tool results by the two adapters.
NextAdapter ==
  \E p \in Procs, adapter \in Adapters, mcpResults \in MCPResultLists :
    ConvertResults(p, adapter, mcpResults)

SpecAdapter == Init /\ [][NextAdapter]_vars

\* The cache with its sweep on schedule: one sweep in every minute.
NextSweep ==
  \/ \E p \in Procs, c \in Centers : ListTools(p, c)
  \/ \E p \in Procs, ok \in BOOLEAN : ListToolsConnectDone(p, ok)
  \/ \E p \in Procs, answer \in ToolsAnswers : ListToolsFetchDone(p, answer)
  \/ \E p \in Procs, c \in Centers : GetCachedTools(p, c)
  \/ \E p \in Procs, c \in Centers : ExtendCacheTTL(p, c)
  \/ MinutePasses
  \/ SweepFires

SpecSweep == Init /\ [][NextSweep]_vars

\* The answers of the endpoint tried in chat turns: an error object and a
\* result.
TurnAnswers == {"error_object", "content_json"}

\* Chat turns and disconnects.
NextTurn ==
  \/ \E p \in Procs, c \in Centers, step \in SetupSteps :
       TurnSetupFailed(p, c, step)
  \/ \E p \in Procs, c \in Centers : TurnStart(p, c)
  \/ \E p \in Procs, ok \in BOOLEAN : TurnConnectDone(p, ok)
  \/ \E p \in Procs, answer \in ToolsAnswers : TurnToolsDone(p, answer)
  \/ \E p \in Procs, fcs \in FunctionCallLists, toolOk \in BOOLEAN,
          intentionOk \in BOOLEAN, rs \in [1..MaxFcs -> Rand] :
       TurnAnalysis(p, fcs, toolOk, intentionOk, rs)
  \/ \E p \in Procs, answer \in TurnAnswers, rs \in [1..MaxFcs -> Rand] :
       TurnCallDone(p, answer, rs)
  \/ \E p \in Procs, outcome \in ReplyOutcomes, rs \in [1..MaxFcs -> Rand] :
       TurnReply(p, outcome, rs)
  \/ \E p \in Procs, c \in Centers : Disconnect(p, c)

SpecTurn == Init /\ [][NextTurn]_vars

\* Connections, their health loops and direct calls of the fallback
\* handler.
NextFallback ==
  \/ \E p \in Procs, c \in Centers : Connect(p, c)
  \/ \E p \in Procs, ok \in BOOLEAN : ConnectDone(p, ok)
  \/ \E k \in ObjIds : HealthTick(k)
  \/ \E k \in ObjIds, healthy \in BOOLEAN : HealthPingDone(k, healthy)
  \/ \E k \in ObjIds, ok \in BOOLEAN : HealthReconnectDone(k, ok)
  \/ \E p \in Procs, c \in Centers, call \in FallbackCalls :
       Fallback(p, c, call)

SpecFallback == Init /\ [][NextFallback]_vars

\* The records saved: either tool, any of the parameters, failed or not.
SavedRecords ==
  {ToolCallRecord(n, cp, now, ok) :
     n \in LedgerTools, cp \in CallParams, ok \in BOOLEAN}

\* Chats, the records saved to them and the searches for a previous call.
NextLedger ==
  \/ \E p \in Procs, u \in {"u1"} : CreateChat(p, u)
  \/ \E p \in Procs, i \in ChatIds, toolCall \in SavedRecords,
          ok \in BOOLEAN : SaveToolCall(p, i, toolCall, ok)
  \/ \E p \in Procs, i \in ChatIds, n \in LedgerTools, cp \in CallParams,
          ok \in BOOLEAN :
       Execute(p, i, [toolName |-> n, callParams |-> cp], ok)

SpecLedger == Init /\ [][NextLedger]_vars

\* The requests tried: each signal absent, naming a configured center,
\* naming no center, and a header naming an inherited property.
Requests ==
  {Request(h, u, ip, q) :
     h \in {"", "cucuta", "nope", "constructor"},
     u \in {"", "medellin", "nope"},
     ip \in BOOLEAN,
     q \in {"", "cucuta", "nope"}}

\* The identification of the center of a request.
NextIdentify == \E p \in Procs, request \in Requests : Identify(p, request)

SpecIdentify == Init /\ [][NextIdentify]_vars

\* The requests handled: those among Requests that come from no address
\* and whose user and query parameter, if any, name a configured center and
\* no center.
HandledRequests ==
  {r \in Requests : ~r.ip /\ r.user # "nope" /\ r.query # "cucuta"}

\* The multi-tenant manager: initialisation and routing of requests.
NextTenant ==
  \/ \E p \in Procs : InitializeCenters(p)
  \/ \E p \in Procs, c \in ConfiguredCenters : InitializeRoute(p, c)
  \/ \E p \in Procs : InitializeDone(p)
  \/ \E p \in Procs, request \in HandledRequests : HandleRequest(p, request)
  \/ \E p \in Procs : HandleRequestRouted(p)

SpecTenant == Init /\ [][NextTenant]_vars

\* The chats of the store: their creation, the messages saved in them and
\* their deletion.
NextChats ==
  \/ \E p \in Procs, u \in UserIds : CreateChat(p, u)
  \/ \E p \in Procs, i \in ChatIds, ok \in BOOLEAN : SaveUserMessage(p, i, ok)
  \/ \E p \in Procs, i \in ChatIds, userId \in UserIdArgs :
       DeleteUserChat(p, i, userId)
  \/ \E p \in Procs, ok \in BOOLEAN : DeleteGet(p, ok)
  \/ \E p \in Procs, ok \in BOOLEAN : DeleteQuery(p, ok)
  \/ \E p \in Procs, ok \in BOOLEAN : DeleteCommit(p, ok)
  \/ \E p \in Procs, ok \in BOOLEAN : DeleteDoc(p, ok)

SpecChats == Init /\ [][NextChats]_vars

\* The health checks of the multi-tenant manager.
NextHealth ==
  \/ \E p \in Procs : HealthCheck(p)
  \/ \E p \in Procs, c \in ConfiguredCenters, storage, endpoint \in BOOLEAN :
       HealthStatus(p, c, storage, endpoint)
  \/ \E p \in Procs : HealthCheckDone(p)

SpecHealth == Init /\ [][NextHealth]_vars

\* The answers of the endpoint tried in the turns of SpecCalls: a transport
\* error, a body that is not JSON, an error object, and results with a
\* text block holding JSON or plain text.
ExecAnswers ==
  {"transport", "bad_body", "error_object", "content_json", "content_text"}

\* Chat turns whose store and inference calls answer, with every kind of
\* answer to their tool calls, and disconnects.
NextCalls ==
  \/ \E p \in Procs, c \in Centers : TurnStart(p, c)
  \/ \E p \in Procs, ok \in BOOLEAN : TurnConnectDone(p, ok)
  \/ \E p \in Procs, answer \in ToolsAnswers : TurnToolsDone(p, answer)
  \/ \E p \in Procs, fcs \in FunctionCallLists, rs \in [1..MaxFcs -> Rand] :
       TurnAnalysis(p, fcs, TRUE, TRUE, rs)
  \/ \E p \in Procs, answer \in ExecAnswers, rs \in [1..MaxFcs -> Rand] :
       TurnCallDone(p, answer, rs)
  \/ \E p \in Procs, rs \in [1..MaxFcs -> Rand] : TurnReply(p, "ok", rs)
  \/ \E p \in Procs, c \in Centers : Disconnect(p, c)

SpecCalls == Init /\ [][NextCalls]_vars

\* Turns that execute their tools while the health loops of the manager
\* run.
NextRemote ==
  \/ \E p \in Procs, c \in Centers : TurnStart(p, c)
  \/ \E p \in Procs, ok \in BOOLEAN : TurnConnectDone(p, ok)
  \/ \E p \in Procs, answer \in ToolsAnswers : TurnToolsDone(p, answer)
  \/ \E p \in Procs, fcs \in FunctionCallLists, rs \in [1..MaxFcs -> Rand] :
       TurnAnalysis(p, fcs, TRUE, TRUE, rs)
  \/ \E p \in Procs, rs \in [1..MaxFcs -> Rand] :
       TurnCallDone(p, "content_json", rs)
  \/ \E p \in Procs, rs \in [1..MaxFcs -> Rand] : TurnReply(p, "ok", rs)
  \/ \E k \in ObjIds : HealthTick(k)
  \/ \E k \in ObjIds, healthy \in BOOLEAN : HealthPingDone(k, healthy)
  \/ \E k \in ObjIds, ok \in BOOLEAN : HealthReconnectDone(k, ok)

SpecRemote == Init /\ [][NextRemote]_vars

\* ------------------------------------------------------------------ claims
\* The connected ConnectionState objects the process holds for center c:
\* the registered one and those returned to callers.
HeldConnected(c) ==
  {o \in ObjIds :
     /\ heap[o].centerId = c
     /\ heap[o].isConnected
     /\ \/ connections[c] = o
        \/ \E p \in Procs : res[p].kind = "return" /\ res[p].conn = o}

\* C1: at every point the process holds at most one ConnectionState per
\* tenant, overlapping connect calls included.
C1_OneStatePerTenant ==
  \A c \in Centers : Cardinality(HeldConnected(c)) <= 1

\* p starts a connectToCenter(c) in this step.
ConnectCalled(p, c) ==
  /\ pc[p] = "idle"
  /\ calls' = calls + 1
  /\ \/ res'[p].op = "connect" /\ res'[p].seq = calls' /\ res'[p].center = c
     \/ pc'[p] = "connect_handshake" /\ loc'[p].center = c

\* C2: connect(t) on a tenant with a connected state returns that same
\* state, changes nothing and sends no health probe.
C2_ConnectReuses ==
  [][\A p \in Procs, c \in Centers :
       (/\ ConnectCalled(p, c)
        /\ connections[c] # NoConn
        /\ heap[connections[c]].isConnected)
       => /\ pc'[p] = "idle"
          /\ res'[p].kind = "return"
          /\ res'[p].conn = connections[c]
          /\ requests' = requests
          /\ heap' = heap
          /\ connections' = connections
          /\ nextObj' = nextObj]_vars

\* Both callers were returned the same connected state: one connect reused
\* what the other registered.
C2_Witness ==
  /\ res["p1"].op = "connect" /\ res["p1"].kind = "return"
  /\ res["p2"].op = "connect" /\ res["p2"].kind = "return"
  /\ res["p1"].conn = res["p2"].conn
  /\ res["p1"].conn # NoConn
  /\ requests = {}

\* C3: at most one health loop (interval timer) is running per tenant.
C3_OneHealthLoop ==
  \A c \in Centers : Cardinality({k \in timers : heap[k].centerId = c}) <= 1

\* A second registration for a center replaced the interval of the first:
\* object 1 was registered (only a registration sets isConnected), object 2
\* is registered now and its interval is the only one.
C3_Witness ==
  \E c \in Centers :
    /\ heap[1].centerId = c /\ heap[1].isConnected
    /\ connections[c] = 2
    /\ connectionTimeouts[c] = 2
    /\ timers = {2}

\* C9: when the handshake of connect(t) fails, t's registered state has
\* status error when the call ends.
C9_FailedHandshakeMarksError ==
  [][\A p \in Procs :
       (pc[p] = "connect_handshake" /\ pc'[p] = "idle"
        /\ res'[p].kind = "raise")
       => /\ connections'[res'[p].center] # NoConn
          /\ heap'[connections'[res'[p].center]].serverStatus = "error"]_vars

\* A call by p is answered from the cache in this step.
ServedFromCache(p) ==
  calls' = calls + 1 /\ res'[p].seq = calls' /\ res'[p].fromCache

\* C4: a cached tool set is never returned past its expiry, by
\* getCachedTools itself or through getAvailableTools.
C4_NeverServedExpired ==
  [][\A p \in Procs :
       ServedFromCache(p)
       => /\ cache[res'[p].center].present
          /\ cache[res'[p].center].expiry >= now
          /\ res'[p].tools = cache[res'[p].center].tools]_vars

\* One caller was answered from the cache and, later and past the TTL, a
\* direct lookup for the same center was refused.
C4_Witness ==
  \E p, q \in Procs :
    /\ res[p].fromCache /\ res[p].op = "listTools"
    /\ res[q].op = "getCachedTools" /\ ~res[q].fromCache
    /\ res[q].center = res[p].center
    /\ res[q].seq > res[p].seq
    /\ now > TTLMinutes

\* p starts a getAvailableTools(c) in this step.
ListToolsCalled(p, c) ==
  /\ pc[p] = "idle"
  /\ calls' = calls + 1
  /\ \/ res'[p].op = "listTools" /\ res'[p].seq = calls' /\ res'[p].center = c
     \/ /\ pc'[p] \in {"listTools_handshake", "listTools_fetch"}
        /\ loc'[p].center = c

\* C5 as stated: inside the TTL window of a center's cached tool set no
\* further discovery fetch for that center is made.
C5_OneFetchPerWindow ==
  \A c \in Centers :
    (cache[c].present /\ now <= cache[c].expiry)
    => ~\E r \in requests : r.path = "/tools" /\ r.center = c

\* C5 as amended: a listTools(t) call that starts while the cache holds an
\* unexpired entry for t is answered from it and contacts nothing; a call
\* that starts with no entry or an expired one goes to the endpoint (the
\* discovery fetch, after a handshake when t is not connected; a failed
\* handshake raises).
C5_CacheWithinTTL ==
  [][\A p \in Procs :
       /\ \A c \in Centers :
            ListToolsCalled(p, c)
            => IF cache[c].present /\ now <= cache[c].expiry
                 THEN /\ pc'[p] = "idle"
                      /\ res'[p].fromCache
                      /\ res'[p].tools = cache[c].tools
                      /\ requests' = requests
                 ELSE /\ pc'[p] # "idle"
                      /\ ~cache'[c].present
                      /\ \E r \in requests' \ requests :
                           /\ r.who = p /\ r.center = c
                           /\ r.path =
                                IF connections[c] # NoConn
                                   /\ heap[connections[c]].isConnected
                                  THEN "/tools" ELSE "/health"
       /\ (pc[p] = "listTools_handshake" /\ pc'[p] # pc[p])
          => \/ /\ pc'[p] = "listTools_fetch"
                /\ \E r \in requests' \ requests :
                     r.who = p /\ r.path = "/tools"
                     /\ r.center = loc[p].center
             \/ pc'[p] = "idle" /\ res'[p].kind = "raise"]_vars

\* A first call fetched, a second was answered from the cache, and past
\* the TTL a third is fetching again.
C5_Witness ==
  \E p, q \in Procs :
    /\ res[q].op = "listTools" /\ res[q].fromCache
    /\ pc[p] = "listTools_fetch"
    /\ loc[p].center = res[q].center
    /\ loc[p].seq > res[q].seq
    /\ now > TTLMinutes

\* C6: executeToolCall never raises; every failure of the remote call
\* (no connection, transport, timeout, status, error object, undecodable
\* body) comes back as a result with success=false and an error message.
C6_InvokeNeverRaises ==
  \A p \in Procs :
    res[p].op = "invoke"
    => /\ res[p].kind = "return"
       /\ res[p].result.toolName = res[p].call.toolName
       /\ res[p].answer \in FailureAnswers \cup {"no_connection"}
          => /\ res[p].result.success = FALSE
             /\ res[p].result.error # "none"
             /\ res[p].result.error # ""

\* One caller was refused for want of a connection, the other got an
\* undecodable body: both hold a failed result.
C6_Witness ==
  \E p, q \in Procs :
    /\ res[p].op = "invoke" /\ res[p].answer = "no_connection"
    /\ res[q].op = "invoke" /\ res[q].answer = "bad_body"
    /\ ~res[q].result.success

\* C7: every result correlates to exactly one invocation by call id: the
\* results the manager and the fallback gave a turn, and the data records
\* of the turn's reply, carry the call id of the invocation that produced
\* them and of no other invocation of the turn.
C7_ResultCorrelates ==
  \A p \in Procs :
    (res[p].op = "turn" /\ res[p].kind = "return")
    => /\ Len(res[p].toolResults) = Len(res[p].invocations)
       /\ Len(res[p].data) = Len(res[p].invocations)
       /\ \A i \in 1..Len(res[p].invocations) :
            /\ res[p].toolResults[i].callId = res[p].invocations[i].callId
            /\ res[p].data[i].callId = res[p].invocations[i].callId
            /\ \A j \in 1..Len(res[p].invocations) :
                 j # i =>
                   res[p].data[i].callId # res[p].invocations[j].callId

\* p's disconnect(c) returns in this step.
DisconnectCalled(p, c) ==
  /\ calls' = calls + 1
  /\ res'[p].op = "disconnect" /\ res'[p].seq = calls' /\ res'[p].center = c

\* C8: after disconnect(t) the tenant is disconnected, has no health
\* timer, and the cache has no entry for it.
C8_DisconnectCleans ==
  [][\A p \in Procs, c \in Centers :
       DisconnectCalled(p, c)
       => /\ connections'[c] = NoConn
             \/ heap'[connections'[c]].serverStatus = "disconnected"
          /\ connectionTimeouts'[c] = NoTimer
          /\ ~\E k \in timers' : heap'[k].centerId = c
          /\ ~cache'[c].present]_vars

\* C10: a failed handshake or a failed discovery fetch is raised to the
\* caller, never a normal return.
C10_FailureRaises ==
  \A p \in Procs :
    (res[p].handshake = "failed" \/ res[p].fetch = "failed")
    => res[p].kind = "raise"

\* The ping of interval k's callback is answered unhealthy in this step.
ProbeFailed(k) ==
  /\ hpc[k] = "ping"
  /\ hpc'[k] # "ping"
  /\ heap'[hloc[k].conn].serverStatus = "error"

\* The handshakes interval k's callback has in flight.
Reconnects(rq, k) ==
  {r \in rq : r.who = "health" /\ r.timer = k /\ r.path = "/health"}

HandshakeFailed(c) ==
  \E p \in Procs :
    res[p].op = "connect" /\ res[p].center = c /\ res[p].kind = "raise"

\* The callback of a health interval of center c has a reconnect handshake
\* in flight.
HealthLoopReconnects(c) ==
  \E k \in ObjIds : heap[k].centerId = c /\ hpc[k] = "handshake"

\* C12: after a failed handshake for a center its health loop eventually
\* attempts a reconnection (as long as the bound on connection objects
\* leaves room for an attempt).
C12_FailureEventuallyRetried ==
  \A c \in Centers :
    HandshakeFailed(c) ~> (HealthLoopReconnects(c) \/ nextObj > MaxObjs)

\* The health intervals running for center c.
TimersOf(tm, h, c) == {k \in tm : h[k].centerId = c}

\* C13: racing connects need no lock: every handshake that succeeds makes
\* its connection the registered one of the center and its health loop the
\* only one running for the center (so after all have finished the last
\* successful handshake is registered); a handshake that fails leaves the
\* registry and the health loops as they are.
C13_LastHandshakeWins ==
  [][/\ \A p \in Procs :
          (pc[p] = "connect_handshake" /\ pc'[p] = "idle")
          => IF res'[p].kind = "return"
               THEN /\ connections'[loc[p].center] = loc[p].conn
                    /\ connectionTimeouts'[loc[p].center] = loc[p].conn
                    /\ TimersOf(timers', heap', loc[p].center) = {loc[p].conn}
               ELSE /\ connections' = connections
                    /\ connectionTimeouts' = connectionTimeouts
                    /\ timers' = timers
     /\ \A k \in ObjIds :
          (hpc[k] = "handshake" /\ hpc'[k] = "idle")
          => IF heap'[hloc[k].newc].isConnected
               THEN /\ connections'[heap[k].centerId] = hloc[k].newc
                    /\ TimersOf(timers', heap', heap[k].centerId)
                         = {hloc[k].newc}
               ELSE /\ connections' = connections
                    /\ timers' = timers]_vars

\* Two connects of one center overlapped and both succeeded; the one that
\* started first finished last: its connection is the registered one and
\* its health loop the only one, the other's connection is held by its
\* caller only.
C13_Witness ==
  \E p, q \in Procs, c \in Centers :
    /\ res[p].op = "connect" /\ res[p].kind = "return" /\ res[p].center = c
    /\ res[q].op = "connect" /\ res[q].kind = "return" /\ res[q].center = c
    /\ res[p].conn = 1 /\ res[q].conn = 2
    /\ heap[2].isConnected
    /\ connections[c] = 1
    /\ TimersOf(timers, heap, c) = {1}

\* C14: a chat turn never raises to its caller: whatever fails, it returns
\* a reply with a text.
C14_TurnNeverRaises ==
  \A p \in Procs :
    res[p].op = "turn" => (res[p].kind = "return" /\ res[p].text # "none")

\* C15: a failed final inference call is retried once, so two calls are
\* made, and the turn returns a reply: the retry's text or the fixed text.
C15_SynthesisRetriedOnce ==
  \A p \in Procs :
    (res[p].op = "turn" /\ res[p].failed = "synthesis")
    => /\ res[p].synthesisCalls = 2
       /\ res[p].kind = "return"
       /\ res[p].text \in {"generated", "No se pudo generar respuesta final."}

\* The results of the executed tools as the final prompt carries them: one
\* per tool result, in order, with its name and its error or data.
CarriesToolResults(results, toolResults) ==
  /\ Len(results) = Len(toolResults)
  /\ \A i \in 1..Len(results) :
       /\ results[i].name = toolResults[i].toolName
       /\ results[i].response.error =
            (IF toolResults[i].success THEN "none" ELSE toolResults[i].error)
       /\ results[i].response.data =
            (IF toolResults[i].success THEN toolResults[i].data ELSE "none")

\* C16: when exactly one of the two interpreters fails, the final inference
\* call is still made; the failed interpreter contributes its neutral
\* result (no tool was executed and no tool data for the tool interpreter,
\* the standard text for the intention interpreter) and what the other
\* one gave is in the final prompt unchanged.
C16_OneAnalysisFailureIsNeutral ==
  \A p \in Procs :
    (res[p].op = "turn" /\ res[p].toolFailed # res[p].intentionFailed)
    => /\ res[p].synthesisCalls = 1
       /\ res[p].toolFailed
            => /\ res[p].prompt.toolData =
                    [kind |-> "Sin datos", results |-> <<>>]
               /\ res[p].invocations = <<>>
               /\ res[p].data = <<>>
               /\ res[p].prompt.intentionText = "intention"
       /\ res[p].intentionFailed
            => /\ res[p].prompt.intentionText = "Respuesta estandar"
               /\ res[p].prompt.toolData.kind # "Sin datos"
               /\ CarriesToolResults(res[p].prompt.toolData.results,
                                     res[p].toolResults)
               /\ Len(res[p].toolResults) = Len(res[p].invocations)

\* Two turns have ended, one whose tool interpreter failed and one whose
\* intention interpreter failed after a tool was executed.
C16_Witness ==
  \E p, q \in Procs :
    /\ res[p].op = "turn" /\ res[p].toolFailed /\ ~res[p].intentionFailed
    /\ res[p].synthesisCalls = 1
    /\ res[q].op = "turn" /\ res[q].intentionFailed /\ ~res[q].toolFailed
    /\ res[q].prompt.toolData.kind = "results"
    /\ res[q].kind = "return"

\* C17: a failure loading the recent history does not abort the turn: the
\* turn goes on and returns a reply.
C17_HistoryFailureNotFatal ==
  \A p \in Procs :
    (res[p].op = "turn" /\ res[p].failed = "getRecentHistory")
    => /\ res[p].kind = "return"
       /\ res[p].synthesisCalls >= 1

\* The store writes of a turn for an existing chat: the user message, the
\* assistant message and the chat's timestamp.
StoreWrites ==
  {"saveUserMessage", "saveAssistantMessage", "updateChatTimestamp"}

\* C18: no failed store write keeps the generated reply from being
\* returned.
C18_WriteFailureStillReplies ==
  \A p \in Procs :
    (res[p].op = "turn" /\ res[p].failed \in StoreWrites)
    => /\ res[p].kind = "return"
       /\ res[p].text \in {"generated", "No se pudo generar respuesta final."}

\* The failed tool results of a finished turn: their positions in its
\* toolResults.
FailedCalls(r) == {i \in 1..Len(r.toolResults) : ~r.toolResults[i].success}

C20_FailedInvocationFallsBack ==
  \A p \in Procs :
    res[p].op = "turn"
    => \A i \in FailedCalls(res[p]) : res[p].executors[i] = "fallback"

\* A finished call of the fallback handler for a tool of its catalog, made
\* while the center's registered status was error.
FallbackCalled(p) ==
  /\ res[p].op = "fallback"
  /\ res[p].status = "error"
  /\ res[p].call.toolName \in FallbackTools

\* C21 as stated: for a center whose status is error, the fallback handler
\* returns a successful result for every tool of its catalog, whatever the
\* arguments, and never raises.
C21_FallbackAlwaysSucceeds ==
  \A p \in Procs :
    FallbackCalled(p) => (res[p].kind = "return" /\ res[p].result.success)

\* C21 as amended: the fallback handler never raises and returns a result
\* for the call it was given; general_info succeeds unless its topic is
\* not a string; contact_center succeeds exactly when its center_id is a
\* string that in lower case names a center with a contact (or a property
\* every object inherits), and otherwise returns a failed result with an
\* error.
C21_FallbackSucceedsForKnownArguments ==
  \A p \in Procs :
    FallbackCalled(p)
    => /\ res[p].kind = "return"
       /\ res[p].result.toolName = res[p].call.toolName
       /\ res[p].result.callId = res[p].call.callId
       /\ res[p].result.success = (res[p].result.error = "none")
       /\ res[p].call.toolName = "general_info"
            => (res[p].result.success <=> res[p].call.topic \notin NonStrings)
       /\ res[p].call.toolName = "contact_center"
            => (res[p].result.success
                  <=> /\ res[p].call.center_id \notin NonStrings
                      /\ ToLowerCase(res[p].call.center_id)
                           \in {"bogota", "medellin", "cucuta",
                                "constructor", "__proto__"})

\* With the status of their centers error, one caller got the contact of
\* a center named in upper case and another was refused the contact of an
\* unknown center.
C21_Witness ==
  \E p, q \in Procs :
    /\ FallbackCalled(p) /\ FallbackCalled(q)
    /\ res[p].call.center_id = "BOGOTA" /\ res[p].result.success
    /\ res[q].call.center_id = "cali" /\ ~res[q].result.success

\* C22: every tool outcome of a finished turn has been appended to the
\* toolCalls of a chat as a record of that tool.
C22_OutcomesAppendedToLedger ==
  \A p \in Procs :
    res[p].op = "turn" /\ res[p].kind = "return"
    => \A i \in 1..Len(res[p].toolResults) :
         \E c \in ChatIds :
           \E j \in 1..Len(chats[c].toolCalls) :
             /\ chats[c].toolCalls[j].toolName =
                  res[p].toolResults[i].toolName
             /\ chats[c].toolCalls[j].success =
                  res[p].toolResults[i].success

\* C23: a search for a previous call returns a record only if the
\* toolCalls it read hold a record of that tool that succeeded with
\* parameters structurally equal to the ones asked for, and the record it
\* returns is such a record.
C23_FindsOnlyEqualSuccessfulCalls ==
  \A p \in Procs :
    (res[p].op = "execute" /\ res[p].found)
    => /\ \E j \in 1..Len(res[p].ledger) : res[p].ledger[j] = res[p].record
       /\ res[p].record.toolName = res[p].query.toolName
       /\ res[p].record.success
       /\ res[p].record.callParams = res[p].query.callParams

\* The three ways a turn is said to end: with the text of its first final
\* inference call, with the text of the one retry, with the fixed text.
NormalCompletion(r) ==
  r.kind = "return" /\ r.text = "generated" /\ r.synthesisCalls = 1
RetryReply(r) ==
  r.kind = "return" /\ r.text = "generated" /\ r.synthesisCalls = 2
FixedApology(r) ==
  r.kind = "return" /\ r.text = "No se pudo generar respuesta final."

\* C24: a turn that has ended has ended in one of the three ways, and in
\* no other.
C24_TurnEndsInOneOfThreeWays ==
  \A p \in Procs :
    res[p].op = "turn"
    => \/ NormalCompletion(res[p])
       \/ RetryReply(res[p])
       \/ FixedApology(res[p])

\* ------------------------------------------------------------------ C25
\* The ids a request names: its header, its user's center and its query
\* parameter, where present.
NamedCenters(request) == {request.header, request.user, request.query} \ {""}

\* The request names a center, and no center it names has a profile.
NamesUnknownCenter(request) ==
  /\ NamedCenters(request) # {}
  /\ NamedCenters(request) \cap ConfiguredCenters = {}

\* C25: a request that names a tenant id with no matching profile is served
\* with the default tenant profile: the request handled by an initialized
\* manager returns, routed to the default center, and raises nothing.
C25_UnknownCenterServedByDefault ==
  \A p \in Procs :
    (/\ res[p].op = "handleRequest"
     /\ res[p].failed # "initialized"
     /\ NamesUnknownCenter(res[p].request))
      => /\ res[p].kind = "return"
         /\ res[p].center = DEFAULT_CENTER

\* ------------------------------------------------------------------ C26
\* C26 as stated: the center identified is the explicit id of the header if
\* the request has one, else the center of its user if it has one, else
\* (geolocation matching nothing) the default center.
C26_HighestPresentSignalDecides ==
  \A p \in Procs :
    res[p].op = "identifyCenter" =>
      res[p].center =
        IF res[p].request.header # "" THEN res[p].request.header
        ELSE IF res[p].request.user # "" THEN res[p].request.user
        ELSE DEFAULT_CENTER

\* The signals of a request in the order of their precedence: header, user,
\* query parameter (geolocation, between the last two, gives none).
Signals(request) == <<request.header, request.user, request.query>>

\* C26 amended: the precedence is header, user's center, geolocation (which
\* matches nothing), query parameter center, default center, and the center
\* identified is the first of these signals that is present and for which
\* isValidCenter holds, or the default center if there is none.
C26_HighestValidSignalDecides ==
  \A p \in Procs :
    res[p].op = "identifyCenter" =>
      LET s == Signals(res[p].request)
          Usable(i) == s[i] # "" /\ IsValidCenter(s[i])
      IN  \/ \E i \in 1..3 : /\ Usable(i)
                             /\ \A j \in 1..(i - 1) : ~Usable(j)
                             /\ res[p].center = s[i]
          \/ /\ \A j \in 1..3 : ~Usable(j)
             /\ res[p].center = DEFAULT_CENTER

\* A request with a header naming no center, a user of medellin and a
\* query parameter naming cucuta was identified as medellin's.
C26_Witness ==
  \E p \in Procs :
    /\ res[p].op = "identifyCenter"
    /\ res[p].request.header = "nope"
    /\ res[p].request.user = "medellin"
    /\ res[p].request.query = "cucuta"
    /\ res[p].request.ip
    /\ res[p].center = "medellin"

\* ------------------------------------------------------------------ C27
\* The handles constructed for center c.
HandlesOf(c) == {i \in 1..Len(firestores) : firestores[i] = c}

\* C27: at most one Firestore handle is constructed per center, and every
\* caller that obtained the handle of a center, concurrently with others or
\* not, obtained that one handle.
C27_OneHandlePerCenter ==
  /\ \A c \in ConfiguredCenters : Cardinality(HandlesOf(c)) <= 1
  /\ \A p \in Procs :
       /\ \A ch \in loc[p].handles : HandlesOf(ch[1]) = {ch[2]}
       /\ (res[p].op = "handleRequest" /\ res[p].kind = "return")
            => HandlesOf(res[p].center) = {res[p].handle}

\* Two initialisations running concurrently have both obtained the handle
\* of bogota, which was constructed once.
C27_Witness ==
  /\ \A p \in Procs :
       pc[p] = "init" /\ \E ch \in loc[p].handles : ch[1] = "bogota"
  /\ Cardinality(HandlesOf("bogota")) = 1

\* ------------------------------------------------------------------ C28
\* C28 as stated: a center is reported healthy only if its storage and its
\* tool endpoint (enabled for every configured center) responded.
C28_HealthyOnlyIfAllSubsystemsRespond ==
  \A p \in Procs :
    res[p].op = "healthCheck" =>
      \A h \in res[p].health : h.healthy => (h.storage /\ h.endpoint)

\* C28 amended: a center is reported healthy only if the health query on
\* its storage was answered; every active center is reported.
C28_HealthyOnlyIfStorageResponds ==
  \A p \in Procs :
    res[p].op = "healthCheck" =>
      /\ \A h \in res[p].health : h.healthy => h.storage
      /\ {h.center : h \in res[p].health} = ActiveCenters

\* A health check reported bogota healthy, whose storage answered while its
\* tool endpoint was unreachable, and cucuta unhealthy, whose storage did
\* not answer.
C28_Witness ==
  \E p \in Procs :
    /\ res[p].op = "healthCheck"
    /\ \E h \in res[p].health :
         h.center = "bogota" /\ h.healthy /\ h.storage /\ ~h.endpoint
    /\ \E h \in res[p].health :
         h.center = "cucuta" /\ ~h.healthy /\ ~h.storage /\ h.endpoint

\* ------------------------------------------------------------------ C29
\* C29: a deleteUserChat of an existing chat for a userId that is not the
\* chat's owner rejects and deletes nothing: it never gets past the
\* ownership check to the deletion of messages or of the chat document,
\* and it ends with a rejection.
C29_MismatchedOwnerRejected ==
  \A p \in Procs :
    /\ (/\ pc[p] \in {"delete_query", "delete_commit", "delete_doc",
                      "delete_pending"}
        /\ loc[p].owner # "")
         => loc[p].userId = loc[p].owner
    /\ (/\ res[p].op = "deleteUserChat"
        /\ res[p].owner # ""
        /\ res[p].userId # res[p].owner)
         => res[p].kind = "raise"

\* ------------------------------------------------------------------ C30
\* C30: deleteUserChat removes the messages of the chat before the chat
\* document: no step deletes the document of a chat that has a message, and
\* when a deleteUserChat returns the chat has no message.
C30_MessagesDeletedBeforeChat ==
  [][\A i \in ChatIds :
       /\ (chats[i].exists /\ ~chats'[i].exists) => messages[i] = {}
       /\ (\E p \in Procs : /\ res'[p] # res[p]
                            /\ res'[p].op = "deleteUserChat"
                            /\ res'[p].kind = "return"
                            /\ res'[p].chat = i)
            => messages'[i] = {}]_vars

\* ------------------------------------------------------------------ C31
\* C31: each sweep removes every entry past its expiry, accessed or not:
\* right after the sweep of a minute no entry in the cache has expired, and
\* no entry is in the cache more than one sweep period after its expiry.
C31_SweepRemovesExpired ==
  \A c \in Centers :
    cache[c].present =>
      /\ swept => ~Expired(cache[c])
      /\ now <= cache[c].expiry + CleanupMinutes

\* The one call made cached the tools of bogota, nothing accessed the
\* entry since, and a sweep after its expiry has removed it.
C31_Witness ==
  /\ calls = 1
  /\ \E p \in Procs :
       /\ res[p].op = "listTools"
       /\ res[p].center = "bogota"
       /\ res[p].kind = "return"
       /\ res[p].tools # <<>>
  /\ ~cache["bogota"].present
  /\ swept
  /\ now > TTLMinutes

\* ------------------------------------------------------------------ C32
\* C32: convertMCPResultsToGenAI returns for every list of results, with
\* one response per result: the payload itself, unmodified, for a success
\* and an object {error: message} for a failure.
C32_PayloadVerbatimOrError ==
  \A p \in Procs :
    res[p].op = "convertMCPResultsToGenAI" =>
      /\ res[p].kind = "return"
      /\ Len(res[p].genAIResults) = Len(res[p].mcpResults)
      /\ \A i \in 1..Len(res[p].mcpResults) :
           res[p].genAIResults[i].response =
             IF res[p].mcpResults[i].success
               THEN res[p].mcpResults[i].data
               ELSE Obj({<<"error", res[p].mcpResults[i].error>>})

\* ------------------------------------------------------------------ C33
\* C33: while disconnect(c) is the last call made to the manager, so that
\* everything else in progress began before it, no connected connection is
\* registered for c, no health timer is armed for c and the cache has no
\* entry for c.
C33_StaysDisconnected ==
  \A p \in Procs, c \in Centers :
    (res[p].op = "disconnect" /\ res[p].center = c /\ res[p].seq = calls)
    => /\ connections[c] = NoConn \/ ~heap[connections[c]].isConnected
       /\ connectionTimeouts[c] = NoTimer
       /\ ~\E k \in timers : heap[k].centerId = c
       /\ ~cache[c].present

\* ------------------------------------------------------------------ C34
\* C34: the connection registered for a center has status connected exactly
\* when its isConnected flag is true, which is what executeToolCall tests.
C34_StatusAgreesWithFlag ==
  \A c \in Centers :
    connections[c] # NoConn =>
      (heap[connections[c]].serverStatus = "connected"
         <=> heap[connections[c]].isConnected)

\* ------------------------------------------------------------------ C35
\* C35: a turn gives a tool call to the fallback handler only when no
\* connected connection is registered for its center at that moment; when
\* one is, the call goes to the connection manager.
C35_ChoiceFollowsRegisteredState ==
  [][\A p \in Procs :
       (/\ pc[p] \in {"turn_llm", "turn_call"}
        /\ \E i \in (Len(loc[p].executors) + 1)..Len(loc'[p].executors) :
             loc'[p].executors[i] = "fallback")
       => ~ExistingConnection(heap, loc[p].center)]_vars

\* C36: a discovery fetch that fails does not populate the tool cache: the
\* step in which getAvailableTools receives a failed answer to GET /tools
\* (timeout, transport error or non-OK response) leaves the cache as it
\* was, so no later listTools is served the empty catalog of that failure.
C36_FailedFetchNotCached ==
  [][\A p \in Procs :
       (/\ pc[p] = "listTools_fetch"
        /\ pc'[p] = "idle"
        /\ res'[p].op = "listTools"
        /\ res'[p].fetch = "failed")
       => cache' = cache]_vars

\* ------------------------------------------- the setup of a turn (C37)
\* The number of messages handleChatPrompt asks getRecentHistory for.
HistoryLimit == 20

\* The two revisions of handleChatPrompt's setup: the one that awaits the
\* save before it loads the history, and the one that starts both at once.
Orchestrators == {"ConversationOrchestrator.ts", "part_006"}

\* orderBy("timestamp", "desc"): the messages from the latest to the
\* earliest (a message's number is the order of its timestamp).
RECURSIVE Descending(_)
Descending(msgs) ==
  IF msgs = {} THEN <<>>
  ELSE LET m == CHOOSE x \in msgs : \A y \in msgs : y <= x
       IN <<m>> \o Descending(msgs \ {m})

\* Array.prototype.reverse.
Reversed(s) == [i \in 1..Len(s) |-> s[Len(s) + 1 - i]]

\* MessageManager.getRecentHistory (lines 29-43) on the messages the store
\* holds when it answers: the limit latest ones, earliest first.
GetRecentHistory(msgs, limit) ==
  LET desc == Descending(msgs)
  IN Reversed(SubSeq(desc, 1, IF Len(desc) < limit THEN Len(desc)
                               ELSE limit))

\* The setup of p's turn ends: the history it goes on with, or the error.
SetupEnds(p, kind, l) ==
  /\ res' = [res EXCEPT ![p] = [NoRes EXCEPT !.op = "setup",
               !.seq = l.seq, !.chat = l.chat, !.kind = kind,
               !.orchestrator = l.orchestrator, !.save = l.save,
               !.load = l.load, !.msg = l.msg, !.history = l.history,
               !.snapshot = l.snapshot]]
  /\ pc' = [pc EXCEPT ![p] = "idle"]
  /\ loc' = [loc EXCEPT ![p] = NoLoc]

\* handleChatPrompt of revision o called by p with the id of chat i, up to
\* its first await: saveUserMessage is started and, in part_006 (lines
\* 636-639), getRecentHistory with it.
SetupStart(p, i, o) ==
  /\ pc[p] = "idle"
  /\ calls < MaxCalls
  /\ nextMsg < MaxMsgs
  /\ chats[i].created
  /\ calls' = calls + 1
  /\ pc' = [pc EXCEPT ![p] = "setup"]
  /\ loc' = [loc EXCEPT ![p] = [NoLoc EXCEPT !.seq = calls + 1, !.chat = i,
               !.orchestrator = o, !.snapshot = messages[i],
               !.save = "pending",
               !.load = IF o = "part_006" THEN "pending" ELSE "none"]]
  /\ res' = [res EXCEPT ![p] = NoRes]
  /\ UNCHANGED storeVars
  /\ UNCHANGED mcpVars

\* The store answers p's saveUserMessage: the message is added, or the add
\* fails. The named revision goes on to load the history (lines 48-53) or
\* throws; part_006 waits until both have settled (Promise.allSettled).
SetupSaveDone(p, ok) ==
  /\ pc[p] = "setup"
  /\ loc[p].save = "pending"
  /\ nextMsg < MaxMsgs
  /\ LET i == loc[p].chat
         l == [loc[p] EXCEPT !.save = IF ok THEN "ok" ELSE "failed",
                             !.msg = IF ok THEN nextMsg + 1 ELSE 0]
     IN /\ IF ok
             THEN /\ nextMsg' = nextMsg + 1
                  /\ messages' = [messages EXCEPT ![i] = @ \cup {nextMsg + 1}]
             ELSE UNCHANGED <<messages, nextMsg>>
        /\ IF l.orchestrator = "part_006"
             THEN IF l.load = "pending"
                    THEN /\ loc' = [loc EXCEPT ![p] = l]
                         /\ UNCHANGED <<pc, res>>
                    ELSE SetupEnds(p, "return", l)
             ELSE IF ok
                    THEN /\ loc' = [loc EXCEPT ![p] =
                                      [l EXCEPT !.load = "pending"]]
                         /\ UNCHANGED <<pc, res>>
                    ELSE SetupEnds(p, "raise", l)
  /\ UNCHANGED <<chats, firestoreConnections, firestores, initialized, swept, isInitialized,
                 calls, chatDocs>>
  /\ UNCHANGED mcpVars

\* The store answers p's getRecentHistory with the messages it holds at
\* that moment, or the query fails: the named revision throws, part_006
\* goes on with an empty history (lines 642-644).
SetupLoadDone(p, ok) ==
  /\ pc[p] = "setup"
  /\ loc[p].load = "pending"
  /\ LET i == loc[p].chat
         l == [loc[p] EXCEPT !.load = IF ok THEN "ok" ELSE "failed",
                 !.history = IF ok
                               THEN GetRecentHistory(messages[i], HistoryLimit)
                               ELSE <<>>]
     IN IF l.orchestrator = "part_006"
          THEN IF l.save = "pending"
                 THEN /\ loc' = [loc EXCEPT ![p] = l]
                      /\ UNCHANGED <<pc, res>>
                 ELSE SetupEnds(p, "return", l)
          ELSE SetupEnds(p, IF ok THEN "return" ELSE "raise", l)
  /\ UNCHANGED storeVars
  /\ UNCHANGED <<calls>>
  /\ UNCHANGED mcpVars

NextSetup ==
  \/ \E p \in Procs, u \in UserIds : CreateChat(p, u)
  \/ \E p \in Procs, i \in ChatIds, o \in Orchestrators : SetupStart(p, i, o)
  \/ \E p \in Procs, ok \in BOOLEAN : SetupSaveDone(p, ok)
  \/ \E p \in Procs, ok \in BOOLEAN : SetupLoadDone(p, ok)

SpecSetup == Init /\ [][NextSetup]_vars

\* p's setup has ended with its message saved and its history loaded.
SetupLoaded(p) ==
  /\ res[p].op = "setup"
  /\ res[p].kind = "return"
  /\ res[p].save = "ok"
  /\ res[p].load = "ok"

\* The history p's turn goes on with holds the message the turn saved.
HistoryHasOwnMessage(p) ==
  \E k \in 1..Len(res[p].history) : res[p].history[k] = res[p].msg

\* C37: the history a turn loads does not depend on which of the save and
\* the load the store completes first: two turns of the same revision that
\* found the same stored messages and saved their message both have it in
\* their history, or neither has.
C37_HistoryIndependentOfOrder ==
  \A p, q \in Procs :
    (/\ SetupLoaded(p)
     /\ SetupLoaded(q)
     /\ res[p].orchestrator = res[q].orchestrator
     /\ res[p].snapshot = res[q].snapshot)
    => (HistoryHasOwnMessage(p) <=> HistoryHasOwnMessage(q))

\* ------------------------------- the controller's initialization (C38)
\* initializeMultiTenant (chatController lines 17-25) awaited by a handler
\* serving p's request, up to its first await: with the flag set it
\* returns; otherwise initializeCenters is called and runs up to the
\* await of each center's routeToCenter.
InitializeMultiTenant(p) ==
  /\ pc[p] = "idle"
  /\ calls < MaxCalls
  /\ calls' = calls + 1
  /\ IF isInitialized
       THEN /\ res' = [res EXCEPT ![p] = [NoRes EXCEPT
                         !.op = "initializeMultiTenant", !.seq = calls + 1,
                         !.kind = "return"]]
            /\ UNCHANGED <<pc, loc>>
       ELSE /\ pc' = [pc EXCEPT ![p] = "boot"]
            /\ loc' = [loc EXCEPT ![p] = [NoLoc EXCEPT !.seq = calls + 1,
                                                         !.todo = ActiveCenters]]
            /\ res' = [res EXCEPT ![p] = NoRes]
  /\ UNCHANGED storeVars
  /\ UNCHANGED mcpVars

\* routeToCenter(c) of the initializeCenters p's handler started goes on
\* after getCenter (CenterRouter lines 65-91).
MultiTenantRoute(p, c) ==
  /\ pc[p] = "boot"
  /\ c \in loc[p].todo
  /\ GetFirestoreConnection(c)
  /\ loc' = [loc EXCEPT ![p] = [@ EXCEPT !.todo = @ \ {c},
               !.handles = @ \cup {<<c, firestoreConnections'[c]>>}]]
  /\ UNCHANGED <<chats, messages, nextMsg, initialized, swept, isInitialized,
                 pc, res, calls, chatDocs>>
  /\ UNCHANGED mcpVars

\* Every routeToCenter is settled and initializeCenters returns
\* (MultiTenantManager lines 31-32).
MultiTenantSettled(p) ==
  /\ pc[p] = "boot"
  /\ loc[p].todo = {}
  /\ initialized' = TRUE
  /\ pc' = [pc EXCEPT ![p] = "boot_return"]
  /\ UNCHANGED <<chats, messages, nextMsg, firestoreConnections, firestores,
                 swept, isInitialized, loc, res, calls, chatDocs>>
  /\ UNCHANGED mcpVars

\* initializeMultiTenant goes on after its await and sets the flag
\* (chatController lines 22-23).
MultiTenantDone(p) ==
  /\ pc[p] = "boot_return"
  /\ isInitialized' = TRUE
  /\ pc' = [pc EXCEPT ![p] = "idle"]
  /\ loc' = [loc EXCEPT ![p] = NoLoc]
  /\ res' = [res EXCEPT ![p] = [NoRes EXCEPT !.op = "initializeMultiTenant",
               !.seq = loc[p].seq, !.kind = "return", !.ran = TRUE]]
  /\ UNCHANGED <<chats, messages, nextMsg, firestoreConnections, firestores,
                 initialized, swept, calls, chatDocs>>
  /\ UNCHANGED mcpVars

NextBoot ==
  \/ \E p \in Procs : InitializeMultiTenant(p)
  \/ \E p \in Procs, c \in ConfiguredCenters : MultiTenantRoute(p, c)
  \/ \E p \in Procs : MultiTenantSettled(p)
  \/ \E p \in Procs : MultiTenantDone(p)

SpecBoot == Init /\ [][NextBoot]_vars

\* p's request has made initializeCenters run: it is running, or it has
\* returned to p's initializeMultiTenant.
RanInitializeCenters(p) ==
  \/ pc[p] \in {"boot", "boot_return"}
  \/ res[p].op = "initializeMultiTenant" /\ res[p].ran

\* C38: the tenants are initialized at most once in a process: of the
\* requests that arrive before the first initialization has finished, only
\* one makes initializeCenters run.
C38_InitializedAtMostOnce ==
  \A p, q \in Procs :
    RanInitializeCenters(p) /\ RanInitializeCenters(q) => p = q

\* --------------------------------------- the listing of chats (C39)
\* The page size of listUserChats.
PAGE_SIZE == 15

\* The chats one owner may have with the same lastUpdatedAt.
MaxTied == 16

\* The values of lastUpdatedAt, in milliseconds (Timestamp.now()).
MaxStamp == 2

\* A chat document: lastUpdatedAt is 0 while the document has no such
\* field (createChat, lines 59-63, stores title, userId and createdAt;
\* updateChatTimestamp, lines 75-83, adds the field).
ChatDoc(id, userId, lastUpdatedAt) ==
  [id |-> id, userId |-> userId, lastUpdatedAt |-> lastUpdatedAt]

\* A collection in which u1 has n1 chats updated at 1, n2 chats updated
\* at 2 and m chats never updated, and u2 has o chats updated at 1.
ChatDocsOf(n1, n2, m, o) ==
  {ChatDoc(<<"a", k>>, "u1", 1) : k \in 1..n1}
    \cup {ChatDoc(<<"b", k>>, "u1", MaxStamp) : k \in 1..n2}
    \cup {ChatDoc(<<"c", k>>, "u1", 0) : k \in 1..m}
    \cup {ChatDoc(<<"d", k>>, "u2", 1) : k \in 1..o}

\* Timestamp.fromMillis(parseInt(lastChatTimestamp, 10)) (lines 32-34):
\* the cursor is the decimal text of the milliseconds; a cursor of no
\* digits stands for the absent argument.
FromMillis(cursor) ==
  IF cursor = <<>> THEN 0
  ELSE LET RECURSIVE Value(_)
           Value(s) == IF s = <<>> THEN 0
                       ELSE 10 * Value(SubSeq(s, 1, Len(s) - 1)) + s[Len(s)]
       IN Value(cursor)

\* The decimal text of a number of milliseconds, as the client sends it.
RECURSIVE Digits(_)
Digits(n) == IF n < 10 THEN <<n>> ELSE Append(Digits(n \div 10), n % 10)

\* orderBy("lastUpdatedAt", "desc") on a set of documents: latest first
\* (documents with the same value in some order of the store's).
RECURSIVE OrderedDesc(_)
OrderedDesc(docs) ==
  IF docs = {} THEN <<>>
  ELSE LET d == CHOOSE x \in docs :
                  \A y \in docs : y.lastUpdatedAt <= x.lastUpdatedAt
       IN <<d>> \o OrderedDesc(docs \ {d})

\* ChatManager.listUserChats (lines 10-48) on the collection docs: the
\* documents of userId that have the field of the order, after the cursor
\* if one is given, cut to the page size.
ListedChats(docs, userId, cursor) ==
  LET mine == {d \in docs : d.userId = userId /\ d.lastUpdatedAt # 0}
      after == IF cursor # <<>>
                 THEN {d \in mine : d.lastUpdatedAt < FromMillis(cursor)}
                 ELSE mine
      ordered == OrderedDesc(after)
  IN SubSeq(ordered, 1, IF Len(ordered) < PAGE_SIZE THEN Len(ordered)
                        ELSE PAGE_SIZE)

\* The chats created and updated so far make up a collection.
ChatsStored(n1, n2, m, o) ==
  /\ chatDocs = {}
  /\ n1 + n2 + m + o > 0
  /\ chatDocs' = ChatDocsOf(n1, n2, m, o)
  /\ UNCHANGED <<chats, messages, nextMsg, firestoreConnections, firestores,
                 initialized, swept, isInitialized>>
  /\ UNCHANGED <<pc, loc, res, calls>>
  /\ UNCHANGED mcpVars

\* p asks for the first page of userId's chats, or for the page after the
\* last one it got, with the lastUpdatedAt of that page's last chat as
\* the cursor.
ListUserChats(p, userId) ==
  /\ pc[p] = "idle"
  /\ chatDocs # {}
  /\ \/ res[p].op # "listUserChats"
     \/ res[p].userId = userId /\ res[p].page # <<>>
  /\ LET first == res[p].op # "listUserChats"
         cursor == IF first THEN <<>>
                   ELSE Digits(res[p].page[Len(res[p].page)].lastUpdatedAt)
         page == ListedChats(chatDocs, userId, cursor)
     IN res' = [res EXCEPT ![p] = [NoRes EXCEPT !.op = "listUserChats",
                  !.kind = "return", !.userId = userId, !.cursor = cursor,
                  !.page = page,
                  !.seen = IF first THEN page ELSE res[p].seen \o page]]
  /\ UNCHANGED <<pc, loc, calls>>
  /\ UNCHANGED storeVars
  /\ UNCHANGED mcpVars

NextListing ==
  \/ \E n1, n2 \in 0..MaxTied, m, o \in 0..1 : ChatsStored(n1, n2, m, o)
  \/ \E p \in Procs, userId \in UserIds : ListUserChats(p, userId)

SpecListing == Init /\ [][NextListing]_vars

\* p has paged through its user's chats to the end: the last page it got
\* is empty.
TraversalEnded(p) ==
  /\ res[p].op = "listUserChats"
  /\ res[p].page = <<>>

\* C39: a traversal that has ended has returned every chat of the owner
\* exactly once, those with the same lastUpdatedAt and those never updated
\* included.
C39_TraversalReturnsEachChatOnce ==
  \A p \in Procs :
    TraversalEnded(p) =>
      /\ \A d \in chatDocs :
           d.userId = res[p].userId =>
             \E k \in 1..Len(res[p].seen) : res[p].seen[k] = d
      /\ \A j, k \in 1..Len(res[p].seen) :
           res[p].seen[j] = res[p].seen[k] => j = k

\* p's deleteUserChat waits for an answer of the store: the read of the
\* chat document, a query or a commit of deleteQueryBatch, or the delete
\* of the chat document.
AwaitsStore(p) ==
  pc[p] \in {"delete_get", "delete_query", "delete_commit", "delete_doc"}

\* C40: deleteUserChat always settles: at every moment a call that has not
\* returned or rejected waits for an answer of the store, so a failure of
\* any batch, the first or a later one, rejects it and never leaves it
\* pending with nothing to wake it.
C40_DeleteSettles ==
  \A p \in Procs : pc[p] = "idle" \/ AwaitsStore(p)

====
